---- MODULE Spec2Model ----
(***************************************************************************)
(* cctop session lifecycle engine: the event -> status transition table,   *)
(* the atomic directory-of-files session store, identifier sanitisation,   *)
(* PID-liveness pruning and the hook handler (src/session.rs,              *)
(* src/bin/cctop_hook.rs).                                                 *)
(*                                                                         *)
(* Strings that the code inspects character by character (session          *)
(* identifiers, file names, paths) are sequences of one-character strings; *)
(* the file-name suffixes "json" and "tmp" are single tokens.  Option<T>   *)
(* is a sequence of length 0 (None) or 1 (Some).                           *)
(***************************************************************************)
EXTENDS Integers, Sequences, FiniteSets, TLC

VARIABLES
    tr,         \* probe of Transition::for_event: [cur, ev, res, done]
    san,        \* probe of sanitize_session_id: [raw, out, path, done]
    codec,      \* probe of the JSON codec of Session: [kind, input, out, done]
    files,      \* the sessions directory: file name -> content
    dirExists,  \* whether the sessions directory exists
    clock,      \* Utc::now(), in hours
    procs,      \* the process table: pid -> "alive" | "dead" | "eperm"
    env,        \* what git and the terminal environment currently report
    last,       \* the operation that completed last, with its inputs and result
    nops,       \* number of operations performed so far
    hk,         \* the concurrently running cctop-hook processes
    rd,         \* what a concurrent reader saw last
    base,       \* the directory before any concurrent process started
    receiver    \* the filesystem events the watcher has not yet polled

vars == <<tr, san, codec, files, dirExists, clock, procs, env, last, nops, hk, rd, base, receiver>>
raceVars == <<hk, rd, base, receiver>>
storeVars == <<files, dirExists, clock, procs, env, last, nops, hk, rd, base,
               receiver>>

None == <<>>
Some(x) == <<x>>
IsSome(o) == o /= <<>>
Unwrap(o) == o[1]

(***************************************************************************)
(* Status and HookEvent (session.rs 15-29, 115-128)                        *)
(***************************************************************************)
Idle == "Idle"
Working == "Working"
Compacting == "Compacting"
WaitingPermission == "WaitingPermission"
WaitingInput == "WaitingInput"
NeedsAttention == "NeedsAttention"

StatusAll == {Idle, Working, Compacting, WaitingPermission, WaitingInput}
Status == StatusAll \cup {NeedsAttention}

HookEvent == {"SessionStart", "UserPromptSubmit", "PreToolUse", "PostToolUse",
              "Stop", "NotificationIdle", "NotificationPermission",
              "NotificationOther", "PermissionRequest", "PreCompact",
              "SessionEnd", "Unknown"}

\* A parser that takes a Notification without a type for an idle prompt.
ParseEventMissingTypeIsIdle(hook_name, notification_type) ==
    CASE hook_name = "SessionStart" -> "SessionStart"
      [] hook_name = "UserPromptSubmit" -> "UserPromptSubmit"
      [] hook_name = "PreToolUse" -> "PreToolUse"
      [] hook_name = "PostToolUse" -> "PostToolUse"
      [] hook_name = "Stop" -> "Stop"
      [] hook_name = "Notification" ->
            IF notification_type \in {None, Some("idle_prompt")} THEN "NotificationIdle"
            ELSE IF notification_type = Some("permission_prompt")
                 THEN "NotificationPermission"
                 ELSE "NotificationOther"
      [] hook_name = "PermissionRequest" -> "PermissionRequest"
      [] hook_name = "PreCompact" -> "PreCompact"
      [] hook_name = "SessionEnd" -> "SessionEnd"
      [] OTHER -> "Unknown"

\* HookEvent::parse
ParseEvent(hook_name, notification_type) ==
    CASE hook_name = "SessionStart" -> "SessionStart"
      [] hook_name = "UserPromptSubmit" -> "UserPromptSubmit"
      [] hook_name = "PreToolUse" -> "PreToolUse"
      [] hook_name = "PostToolUse" -> "PostToolUse"
      [] hook_name = "Stop" -> "Stop"
      [] hook_name = "Notification" ->
            IF notification_type = Some("idle_prompt") THEN "NotificationIdle"
            ELSE IF notification_type = Some("permission_prompt")
                 THEN "NotificationPermission"
                 ELSE "NotificationOther"
      [] hook_name = "PermissionRequest" -> "PermissionRequest"
      [] hook_name = "PreCompact" -> "PreCompact"
      [] hook_name = "SessionEnd" -> "SessionEnd"
      [] OTHER -> "Unknown"

\* A transition table in which Stop keeps a permission wait alive.
ForEventStopKeepsWaiting(current, event) ==
    CASE event = "SessionStart" -> Some(Idle)
      [] event = "UserPromptSubmit" -> Some(Working)
      [] event = "PreToolUse" -> Some(Working)
      [] event = "PostToolUse" -> Some(Working)
      [] event = "Stop" -> IF current = WaitingPermission THEN None ELSE Some(Idle)
      [] event = "NotificationIdle" -> Some(WaitingInput)
      [] event = "NotificationPermission" -> Some(WaitingPermission)
      [] event = "NotificationOther" -> None
      [] event = "PermissionRequest" -> Some(WaitingPermission)
      [] event = "PreCompact" -> Some(Compacting)
      [] event = "SessionEnd" -> None
      [] event = "Unknown" -> None

\* A transition table in which PostToolUse keeps the legacy status.
ForEventKeepsLegacy(current, event) ==
    CASE event = "SessionStart" -> Some(Idle)
      [] event = "UserPromptSubmit" -> Some(Working)
      [] event = "PreToolUse" -> Some(Working)
      [] event = "PostToolUse" -> IF current = NeedsAttention THEN None ELSE Some(Working)
      [] event = "Stop" -> Some(Idle)
      [] event = "NotificationIdle" -> Some(WaitingInput)
      [] event = "NotificationPermission" -> Some(WaitingPermission)
      [] event = "NotificationOther" -> None
      [] event = "PermissionRequest" -> Some(WaitingPermission)
      [] event = "PreCompact" -> Some(Compacting)
      [] event = "SessionEnd" -> None
      [] event = "Unknown" -> None

\* A transition table in which an idle notification does not interrupt work.
ForEventWorkingIsSticky(current, event) ==
    CASE event = "SessionStart" -> Some(Idle)
      [] event = "UserPromptSubmit" -> Some(Working)
      [] event = "PreToolUse" -> Some(Working)
      [] event = "PostToolUse" -> Some(Working)
      [] event = "Stop" -> Some(Idle)
      [] event = "NotificationIdle" -> IF current = Working THEN None ELSE Some(WaitingInput)
      [] event = "NotificationPermission" -> Some(WaitingPermission)
      [] event = "NotificationOther" -> None
      [] event = "PermissionRequest" -> Some(WaitingPermission)
      [] event = "PreCompact" -> Some(Compacting)
      [] event = "SessionEnd" -> None
      [] event = "Unknown" -> None

\* Transition::for_event
ForEvent(current, event) ==
    CASE event = "SessionStart" -> Some(Idle)
      [] event = "UserPromptSubmit" -> Some(Working)
      [] event = "PreToolUse" -> Some(Working)
      [] event = "PostToolUse" -> Some(Working)
      [] event = "Stop" -> Some(Idle)
      [] event = "NotificationIdle" -> Some(WaitingInput)
      [] event = "NotificationPermission" -> Some(WaitingPermission)
      [] event = "NotificationOther" -> None
      [] event = "PermissionRequest" -> Some(WaitingPermission)
      [] event = "PreCompact" -> Some(Compacting)
      [] event = "SessionEnd" -> None
      [] event = "Unknown" -> None

(***************************************************************************)
(* Identifier sanitisation and path derivation (session.rs 448-453,        *)
(* 527-529)                                                                *)
(***************************************************************************)
IdChars == {"a", "b", ".", "/", "\\"}
MaxIdLen == 4

RECURSIVE SeqsUpTo(_, _)
SeqsUpTo(S, n) ==
    IF n = 0 THEN {<<>>}
    ELSE LET shorter == SeqsUpTo(S, n - 1)
         IN shorter \cup {Append(s, c) : s \in shorter, c \in S}

\* str::replace(['/', '\\'], "")
StripSeparators(s) == SelectSeq(s, LAMBDA c : c \notin {"/", "\\"})

\* str::replace("..", ""): one left-to-right pass over non-overlapping matches
RECURSIVE RemoveDotDot(_)
RemoveDotDot(s) ==
    IF Len(s) = 0 THEN <<>>
    ELSE IF Len(s) >= 2 /\ s[1] = "." /\ s[2] = "."
         THEN RemoveDotDot(SubSeq(s, 3, Len(s)))
         ELSE <<s[1]>> \o RemoveDotDot(Tail(s))

\* The two replacements in the opposite order.
SanitizeDotsFirst(raw) == StripSeparators(RemoveDotDot(raw))

\* sanitize_session_id
SanitizeSessionId(raw) == RemoveDotDot(StripSeparators(raw))

\* format!("{}.json", id)
JsonName(id) == id \o <<".", "json">>

\* Splitting a relative path string at '/' into its components.
RECURSIVE SplitAt(_, _)
SplitAt(s, acc) ==
    IF Len(s) = 0 THEN <<acc>>
    ELSE IF s[1] = "/" THEN <<acc>> \o SplitAt(Tail(s), <<>>)
         ELSE SplitAt(Tail(s), Append(acc, s[1]))

\* The directory sessions_dir, as a list of components below the root.
SessionsDir == << <<"h">>, <<"s">> >>

\* The location that sessions_dir.join(name) names once the OS resolves it:
\* a leading '/' restarts at the root, "." and empty components are skipped,
\* ".." steps to the parent.
RECURSIVE Walk(_, _)
Walk(at, comps) ==
    IF Len(comps) = 0 THEN at
    ELSE LET c == comps[1]
             next == IF c = <<>> \/ c = <<".">> THEN at
                     ELSE IF c = <<".", ".">>
                          THEN (IF Len(at) = 0 THEN at ELSE SubSeq(at, 1, Len(at) - 1))
                          ELSE Append(at, c)
         IN Walk(next, Tail(comps))

ResolveJoin(dir, name) ==
    IF Len(name) > 0 /\ name[1] = "/" THEN Walk(<<>>, SplitAt(name, <<>>))
    ELSE Walk(dir, SplitAt(name, <<>>))

\* Session::file_path / the session_path of handle_hook
FilePath(dir, session_id) == ResolveJoin(dir, JsonName(SanitizeSessionId(session_id)))

(***************************************************************************)
(* Text: a String whose characters the code never inspects one by one is a *)
(* sequence of parts [c, n], each the first n characters of the text named *)
(* c.  The characters of a part are one byte long unless the part carries  *)
(* a width w.                                                              *)
(***************************************************************************)
Str(c, n) == << [c |-> c, n |-> n] >>

\* Bytes of one character in UTF-8; "U+00E9" stands for the one character
\* e-acute, which takes two bytes.
Utf8Len(c) == IF c = "U+00E9" THEN 2 ELSE 1

\* A text of n characters that take two bytes each in UTF-8.
Wide(c, n) == << [c |-> c, n |-> n, w |-> Utf8Len("U+00E9")] >>

Width(part) == IF "w" \in DOMAIN part THEN part.w ELSE 1

\* str::len: the length in bytes
RECURSIVE TextLen(_)
TextLen(t) == IF Len(t) = 0 THEN 0 ELSE t[1].n * Width(t[1]) + TextLen(Tail(t))

\* s.chars().take(k).collect()
RECURSIVE TextTake(_, _)
TextTake(t, k) ==
    IF Len(t) = 0 \/ k = 0 THEN <<>>
    ELSE IF t[1].n <= k THEN <<t[1]>> \o TextTake(Tail(t), k - t[1].n)
         ELSE << [t[1] EXCEPT !.n = k] >>

(***************************************************************************)
(* Session, TerminalInfo and the JSON codec (session.rs 13-29, 266-363)    *)
(***************************************************************************)
\* A deserialiser whose fallback for an unknown name is Idle.
StatusFromStrFallsBackToIdle(name) ==
    CASE name = "idle" -> Idle
      [] name = "working" -> Working
      [] name = "compacting" -> Compacting
      [] name = "waiting_permission" -> WaitingPermission
      [] name = "waiting_input" -> WaitingInput
      [] name = "needs_attention" -> NeedsAttention
      [] OTHER -> Idle

\* Deserialize for Status: #[serde(other)] sends every unknown name to NeedsAttention
StatusFromStr(name) ==
    CASE name = "idle" -> Idle
      [] name = "working" -> Working
      [] name = "compacting" -> Compacting
      [] name = "waiting_permission" -> WaitingPermission
      [] name = "waiting_input" -> WaitingInput
      [] OTHER -> NeedsAttention

\* extract_project_name: the last component of the path, "unknown" for the
\* root or a path that ends in ".."
ExtractProjectName(path) ==
    IF Len(path) = 0 \/ path[Len(path)] = ".." THEN "unknown" ELSE path[Len(path)]

\* A constructor that starts a session as Working.
SessionNewStartsWorking(session_id, project_path, branch, terminal, now) ==
    [session_id |-> session_id,
     project_path |-> project_path,
     project_name |-> ExtractProjectName(project_path),
     branch |-> branch,
     status |-> Working,
     last_prompt |-> None,
     last_activity |-> now,
     started_at |-> now,
     terminal |-> terminal,
     pid |-> None,
     last_tool |-> None,
     last_tool_detail |-> None,
     notification_message |-> None]

\* Session::new
SessionNew(session_id, project_path, branch, terminal, now) ==
    [session_id |-> session_id,
     project_path |-> project_path,
     project_name |-> ExtractProjectName(project_path),
     branch |-> branch,
     status |-> Idle,
     last_prompt |-> None,
     last_activity |-> now,
     started_at |-> now,
     terminal |-> terminal,
     pid |-> None,
     last_tool |-> None,
     last_tool_detail |-> None,
     notification_message |-> None]

\* A reset that also forgets the last prompt.
ResetClearsPrompt(session, now) ==
    [session EXCEPT !.status = Idle, !.last_tool = None, !.last_tool_detail = None,
                    !.notification_message = None, !.last_prompt = None,
                    !.last_activity = now]

\* Session::reset
Reset(session, now) ==
    [session EXCEPT !.status = Idle, !.last_tool = None, !.last_tool_detail = None,
                    !.notification_message = None, !.last_activity = now]

\* JSON values (serde_json::Value)
JNull == [t |-> "null"]
JBool(b) == [t |-> "bool", v |-> b]
JStr(text) == [t |-> "str", v |-> text]
JInt(n) == [t |-> "int", v |-> n]
JNum == [t |-> "num"]
JObj(m) == [t |-> "obj", m |-> m]

\* Serialize for Option<String> and Option<u32>: None is null, Some(x) is x
OptStrToJson(o) == IF IsSome(o) THEN JStr(Unwrap(o)) ELSE JNull
OptIntToJson(o) == IF IsSome(o) THEN JInt(Unwrap(o)) ELSE JNull

\* Deserialize for an Option field: a missing key and null are None, a value
\* of the field's type is Some, a value of another type is an error
OptFromJson(obj, f, type) ==
    IF f \notin DOMAIN obj THEN [ok |-> TRUE, v |-> None]
    ELSE IF obj[f].t = "null" THEN [ok |-> TRUE, v |-> None]
    ELSE IF obj[f].t = type THEN [ok |-> TRUE, v |-> Some(obj[f].v)]
    ELSE [ok |-> FALSE, v |-> None]

\* Serialize and Deserialize for TerminalInfo
TerminalToJson(terminal) ==
    [program |-> terminal.program,
     session_id |-> OptStrToJson(terminal.session_id),
     tty |-> OptStrToJson(terminal.tty)]

TerminalFromJson(obj) ==
    LET session_id == OptFromJson(obj, "session_id", "str")
        tty == OptFromJson(obj, "tty", "str")
    IN IF "program" \in DOMAIN obj /\ session_id.ok /\ tty.ok
       THEN Some([program |-> obj["program"], session_id |-> session_id.v,
                  tty |-> tty.v])
       ELSE None

\* A serialiser that writes WaitingInput under the name an earlier release
\* used.
StatusStrLegacyName(status) ==
    CASE status = Idle -> "idle"
      [] status = Working -> "working"
      [] status = Compacting -> "compacting"
      [] status = WaitingPermission -> "waiting_permission"
      [] status = WaitingInput -> "needs_input"
      [] status = NeedsAttention -> "needs_attention"

\* Status::as_str / #[serde(rename_all = "snake_case")]
StatusStr(status) ==
    CASE status = Idle -> "idle"
      [] status = Working -> "working"
      [] status = Compacting -> "compacting"
      [] status = WaitingPermission -> "waiting_permission"
      [] status = WaitingInput -> "waiting_input"
      [] status = NeedsAttention -> "needs_attention"

\* serde_json::to_string_pretty(self): every field is written, the status
\* under its snake_case name, None as null
ToJson(session) ==
    [session_id |-> session.session_id,
     project_path |-> session.project_path,
     project_name |-> session.project_name,
     branch |-> session.branch,
     status |-> StatusStr(session.status),
     last_prompt |-> OptStrToJson(session.last_prompt),
     last_activity |-> session.last_activity,
     started_at |-> session.started_at,
     terminal |-> TerminalToJson(session.terminal),
     pid |-> OptIntToJson(session.pid),
     last_tool |-> OptStrToJson(session.last_tool),
     last_tool_detail |-> OptStrToJson(session.last_tool_detail),
     notification_message |-> OptStrToJson(session.notification_message)]

RequiredFields == {"session_id", "project_path", "project_name", "branch", "status",
                   "last_activity", "started_at", "terminal"}

\* Session::from_json: Err (None) when a required field is missing; absent
\* Option fields and #[serde(default)] fields load as None; unknown fields
\* are ignored
FromJson(obj) ==
    LET last_prompt == OptFromJson(obj, "last_prompt", "str")
        pid == OptFromJson(obj, "pid", "int")
        last_tool == OptFromJson(obj, "last_tool", "str")
        last_tool_detail == OptFromJson(obj, "last_tool_detail", "str")
        notification_message == OptFromJson(obj, "notification_message", "str")
    IN IF /\ RequiredFields \subseteq DOMAIN obj
          /\ IsSome(TerminalFromJson(obj["terminal"]))
          /\ last_prompt.ok /\ pid.ok /\ last_tool.ok /\ last_tool_detail.ok
          /\ notification_message.ok
       THEN Some([session_id |-> obj["session_id"],
                  project_path |-> obj["project_path"],
                  project_name |-> obj["project_name"],
                  branch |-> obj["branch"],
                  status |-> StatusFromStr(obj["status"]),
                  last_prompt |-> last_prompt.v,
                  last_activity |-> obj["last_activity"],
                  started_at |-> obj["started_at"],
                  terminal |-> Unwrap(TerminalFromJson(obj["terminal"])),
                  pid |-> pid.v,
                  last_tool |-> last_tool.v,
                  last_tool_detail |-> last_tool_detail.v,
                  notification_message |-> notification_message.v])
       ELSE None

(***************************************************************************)
(* The sessions directory.  A file is complete JSON text or the strict     *)
(* prefix of one that an unfinished fs::write has produced so far.         *)
(***************************************************************************)
JsonFile(obj) == [kind |-> "json", obj |-> obj]
PartialFile == [kind |-> "partial"]

Exists(fs, name) == name \in DOMAIN fs

\* Session::from_file: Err (None) for a missing or unparseable file
FromFile(fs, name) ==
    IF ~Exists(fs, name) THEN None
    ELSE IF fs[name].kind = "json" THEN FromJson(fs[name].obj) ELSE None

PutFile(fs, name, content) ==
    [n \in DOMAIN fs \cup {name} |-> IF n = name THEN content ELSE fs[n]]

RemoveFiles(fs, names) == [n \in DOMAIN fs \ names |-> fs[n]]

\* Index of the last "." of a file name, 0 when there is none.
LastDot(name) ==
    LET dots == {i \in 1..Len(name) : name[i] = "."}
    IN IF dots = {} THEN 0 ELSE CHOOSE i \in dots : \A j \in dots : j <= i

\* Path::extension: None without a dot and for a name whose only dot leads it
Extension(name) ==
    IF LastDot(name) <= 1 THEN None
    ELSE Some(SubSeq(name, LastDot(name) + 1, Len(name)))

\* Path::file_stem
FileStem(name) ==
    IF LastDot(name) <= 1 THEN name ELSE SubSeq(name, 1, LastDot(name) - 1)

\* Path::with_extension
WithExtension(name, ext) == FileStem(name) \o <<".">> \o ext

IsJsonEntry(name) == Extension(name) = Some(<<"json">>)

\* Writing the final file in place, without a temp file.
TempPathInPlace(name) == name

\* One temp file shared by every session.
TempPathShared(name) == <<"session", ".", "json", ".", "tmp">>

\* write_to_file's temp_path: path.with_extension("json.tmp")
TempPath(name) == WithExtension(name, <<"json", ".", "tmp">>)

(***************************************************************************)
(* Process liveness (session.rs 640-651)                                   *)
(***************************************************************************)
\* libc::kill(pid, 0): 0 when the process exists and may be signalled,
\* -1 with ESRCH when it does not exist, -1 with EPERM when it exists but
\* belongs to another user
Kill0(pt, pid) ==
    CASE pt[pid] = "alive" -> [ret |-> 0, errno |-> "none"]
      [] pt[pid] = "dead" -> [ret |-> 0 - 1, errno |-> "ESRCH"]
      [] pt[pid] = "eperm" -> [ret |-> 0 - 1, errno |-> "EPERM"]

ProcessExists(pt, pid) == pt[pid] \in {"alive", "eperm"}

\* is_pid_alive
IsPidAlive(pt, pid) == Kill0(pt, pid).ret = 0

\* A listing that parses every file of the directory, whatever its name.
LoadAllAnyFile(fs) ==
    {Unwrap(FromFile(fs, name)) : name \in {n \in DOMAIN fs : IsSome(FromFile(fs, n))}}

\* Session::load_all: the records of the parseable *.json entries
LoadAll(fs) ==
    {Unwrap(FromFile(fs, name)) :
        name \in {n \in DOMAIN fs : IsJsonEntry(n) /\ IsSome(FromFile(fs, n))}}

\* Session::remove_from_dir: removes file_path(session_id) if it exists
RemoveFromDir(fs, session) ==
    RemoveFiles(fs, {JsonName(SanitizeSessionId(session.session_id))})

\* load_live_sessions: the records kept and the directory afterwards
LoadLiveSessions(fs, pt) ==
    LET sessions == LoadAll(fs)
        dead == {s \in sessions : IsSome(s.pid) /\ ~IsPidAlive(pt, Unwrap(s.pid))}
    IN [live |-> sessions \ dead,
        fs |-> RemoveFiles(fs, {JsonName(SanitizeSessionId(s.session_id)) : s \in dead})]

\* A cleanup that also removes the records exactly max_age old.
CleanupStaleSessionsInclusive(fs, dir, now, max_age) ==
    IF ~dir THEN fs
    ELSE LET stale == {s \in LoadAll(fs) : now - s.last_activity >= max_age}
         IN RemoveFiles(fs, {JsonName(SanitizeSessionId(s.session_id)) : s \in stale})

\* cleanup_stale_sessions: the directory afterwards (the result is always Ok
\* when no storage call fails)
CleanupStaleSessions(fs, dir, now, max_age) ==
    IF ~dir THEN fs
    ELSE LET stale == {s \in LoadAll(fs) : now - s.last_activity > max_age}
         IN RemoveFiles(fs, {JsonName(SanitizeSessionId(s.session_id)) : s \in stale})

(***************************************************************************)
(* The change watcher (watcher.rs 64-126).  A pending item of the channel  *)
(* is an event of some notify::EventKind or a watcher error.               *)
(***************************************************************************)
EventKinds == {"Any", "Access", "Create", "Modify", "Remove", "Other"}

Pending == [ok : {TRUE}, kind : EventKinds] \cup {[ok |-> FALSE, kind |-> "Error"]}

\* A watcher for which every event asks for a reload.
IsRelevantEventAlways(event) == TRUE

\* is_relevant_event
IsRelevantEvent(event) == event.kind \in {"Create", "Modify", "Remove"}

\* A poll that looks at the pending items without taking them off the channel.
PollChangesKeepsQueue(queue, fs, pt) ==
    LET has_changes == \E i \in DOMAIN queue : queue[i].ok /\ IsRelevantEvent(queue[i])
        reload == LoadLiveSessions(fs, pt)
    IN IF has_changes
       THEN [result |-> Some(reload.live), fs |-> reload.fs, reloads |-> 1, queue |-> queue]
       ELSE [result |-> None, fs |-> fs, reloads |-> 0, queue |-> queue]

\* poll_changes: try_recv until the channel is empty, then at most one
\* load_live_sessions
PollChanges(queue, fs, pt) ==
    LET has_changes == \E i \in DOMAIN queue : queue[i].ok /\ IsRelevantEvent(queue[i])
        reload == LoadLiveSessions(fs, pt)
    IN IF has_changes
       THEN [result |-> Some(reload.live), fs |-> reload.fs, reloads |-> 1, queue |-> <<>>]
       ELSE [result |-> None, fs |-> fs, reloads |-> 0, queue |-> <<>>]

(***************************************************************************)
(* The hook handler (cctop_hook.rs 65-194, 269-427)                        *)
(***************************************************************************)
MAX_TOOL_DETAIL_LEN == 120
NO_PID_MAX_AGE == 24

\* Value::get(field) followed by Value::as_str
GetStr(value, field) ==
    IF value.t = "obj" /\ field \in DOMAIN value.m /\ value.m[field].t = "str"
    THEN Some(value.m[field].v)
    ELSE None

\* extract_tool_detail
ExtractToolDetail(tool_name, tool_input) ==
    LET field ==
            CASE tool_name = Str("Bash", 4) -> Some("command")
              [] tool_name \in {Str("Edit", 4), Str("Write", 5), Str("Read", 4)} -> Some("file_path")
              [] tool_name \in {Str("Grep", 4), Str("Glob", 4)} -> Some("pattern")
              [] tool_name = Str("WebFetch", 8) -> Some("url")
              [] tool_name = Str("WebSearch", 9) -> Some("query")
              [] tool_name = Str("Task", 4) -> Some("description")
              [] OTHER -> None
        value == IF IsSome(field) THEN GetStr(tool_input, Unwrap(field)) ELSE None
    IN IF ~IsSome(value) THEN None
       ELSE IF TextLen(Unwrap(value)) = 0 THEN None
       ELSE IF TextLen(Unwrap(value)) > MAX_TOOL_DETAIL_LEN
            THEN Some(TextTake(Unwrap(value), MAX_TOOL_DETAIL_LEN - 3) \o Str("...", 3))
            ELSE value

\* get_current_branch and capture_terminal_info: fresh samples of the environment
GetCurrentBranch(e, cwd) == e.branch
CaptureTerminalInfo(e) == e.terminal

\* get_parent_pid
GetParentPid(inv) == Some(inv.ppid)

\* A handler that starts from a fresh record on every event.
LoadOrCreateAlwaysNew(fs, safe_id, input, branch, terminal, now) ==
    SessionNew(safe_id, input.cwd, branch, terminal, now)

\* handle_hook 290-311: the existing record, or a fresh one when the file is
\* missing or does not parse
LoadOrCreate(fs, safe_id, input, branch, terminal, now) ==
    IF Exists(fs, JsonName(safe_id)) /\ IsSome(FromFile(fs, JsonName(safe_id)))
    THEN Unwrap(FromFile(fs, JsonName(safe_id)))
    ELSE SessionNew(safe_id, input.cwd, branch, terminal, now)

\* A message that prefers the pending tool to the title.
PermissionMessagePrefersTool(input) ==
    IF IsSome(input.tool_name)
    THEN LET t == Unwrap(input.tool_name)
             detail == IF IsSome(input.tool_input)
                       THEN ExtractToolDetail(t, Unwrap(input.tool_input))
                       ELSE None
         IN IF IsSome(detail) THEN Some(t \o Str(": ", 2) \o Unwrap(detail))
            ELSE Some(t)
    ELSE input.title

\* PermissionRequest's message: the title, else "<tool>: <detail>", else the tool
PermissionMessage(input) ==
    IF IsSome(input.title) THEN input.title
    ELSE IF IsSome(input.tool_name)
         THEN LET t == Unwrap(input.tool_name)
                  detail == IF IsSome(input.tool_input)
                            THEN ExtractToolDetail(t, Unwrap(input.tool_input))
                            ELSE None
              IN IF IsSome(detail) THEN Some(t \o Str(": ", 2) \o Unwrap(detail))
                 ELSE Some(t)
         ELSE None

\* A refresh that leaves the stored branch and terminal alone.
RefreshActivityOnly(session, branch, terminal, now) ==
    [session EXCEPT !.last_activity = now]

\* A refresh that stamps the record with the time the session started.
RefreshFromStart(session, branch, terminal, now) ==
    [session EXCEPT !.last_activity = session.started_at, !.branch = branch,
                    !.terminal = terminal]

\* handle_hook 322-324: last_activity, branch and terminal are set on every event
Refresh(session, branch, terminal, now) ==
    [session EXCEPT !.last_activity = now, !.branch = branch, !.terminal = terminal]

\* A SessionStart that keeps a PID the record already carries.
SessionStartEffectsKeepsStoredPid(s, inv) ==
    [s EXCEPT !.last_tool = None, !.last_tool_detail = None,
              !.notification_message = None,
              !.pid = IF IsSome(@) THEN @ ELSE GetParentPid(inv)]

\* handle_hook 328-336: SessionStart clears the transient fields and records the PID
SessionStartEffects(s, inv) ==
    [s EXCEPT !.last_tool = None, !.last_tool_detail = None,
              !.notification_message = None, !.pid = GetParentPid(inv)]

\* A UserPromptSubmit that stores the payload's prompt even when it has none.
UserPromptSubmitEffectsAlwaysSetsPrompt(s, input) ==
    [s EXCEPT !.last_tool = None, !.last_tool_detail = None,
              !.notification_message = None, !.last_prompt = input.prompt]

\* A UserPromptSubmit that leaves the notification message in place.
UserPromptSubmitEffectsKeepsMessage(s, input) ==
    [s EXCEPT !.last_tool = None, !.last_tool_detail = None,
              !.last_prompt = IF IsSome(input.prompt) THEN input.prompt ELSE @]

\* handle_hook 345-354
UserPromptSubmitEffects(s, input) ==
    [s EXCEPT !.last_tool = None, !.last_tool_detail = None,
              !.notification_message = None,
              !.last_prompt = IF IsSome(input.prompt) THEN input.prompt ELSE @]

\* handle_hook 356-365
PreToolUseEffects(s, input) ==
    IF IsSome(input.tool_name)
    THEN [s EXCEPT !.last_tool = input.tool_name,
                   !.last_tool_detail =
                        IF IsSome(input.tool_input)
                        THEN ExtractToolDetail(Unwrap(input.tool_name),
                                               Unwrap(input.tool_input))
                        ELSE None]
    ELSE s

\* A PermissionRequest that leaves the tool fields of the record in place.
PermissionRequestEffectsKeepsTool(s, input) ==
    [s EXCEPT !.notification_message = PermissionMessage(input)]

\* handle_hook 367-384
PermissionRequestEffects(s, input) ==
    [s EXCEPT !.notification_message = PermissionMessage(input),
              !.last_tool = None, !.last_tool_detail = None]

\* handle_hook 386-396
NotificationEffects(s, input) ==
    [s EXCEPT !.last_tool = None, !.last_tool_detail = None,
              !.notification_message = IF IsSome(input.message) THEN input.message ELSE @]

\* A Stop that forgets to clear the notification message.
StopEffectsKeepMessage(s) ==
    [s EXCEPT !.last_tool = None, !.last_tool_detail = None]

\* handle_hook 402-407
StopEffects(s) ==
    [s EXCEPT !.last_tool = None, !.last_tool_detail = None,
              !.notification_message = None]

\* handle_hook 316-410 without the two sweeps: the transition, the refresh of
\* last_activity, branch and terminal, and the per-event side effects
ApplyEvent(session, event, inv, branch, terminal, now) ==
    LET next == ForEvent(session.status, event)
        moved == [session EXCEPT !.status = IF IsSome(next) THEN Unwrap(next) ELSE @]
        s == Refresh(moved, branch, terminal, now)
    IN CASE event = "SessionStart" -> SessionStartEffects(s, inv)
         [] event = "UserPromptSubmit" -> UserPromptSubmitEffects(s, inv.input)
         [] event = "PreToolUse" -> PreToolUseEffects(s, inv.input)
         [] event = "PermissionRequest" -> PermissionRequestEffects(s, inv.input)
         [] event \in {"NotificationIdle", "NotificationPermission", "NotificationOther"} ->
                NotificationEffects(s, inv.input)
         [] event = "PreCompact" -> s
         [] event = "Stop" -> StopEffects(s)
         [] event \in {"PostToolUse", "SessionEnd", "Unknown"} -> s

\* cleanup_sessions_for_project: the directory after the sweep
CleanupSessionsForProject(fs, pt, now, project_path, current_session_id) ==
    LET ShouldRemove(session) ==
            IF IsSome(session.pid) THEN ~IsPidAlive(pt, Unwrap(session.pid))
            ELSE now - session.last_activity > NO_PID_MAX_AGE
        Removed(name) ==
            /\ IsJsonEntry(name)
            /\ IsSome(FromFile(fs, name))
            /\ LET session == Unwrap(FromFile(fs, name))
               IN /\ ~(session.project_path /= project_path
                        \/ session.session_id = current_session_id)
                  /\ ShouldRemove(session)
    IN RemoveFiles(fs, {name \in DOMAIN fs : Removed(name)})

\* cleanup_sessions_with_pid: the directory after the sweep
CleanupSessionsWithPid(fs, pid, current_session_id) ==
    LET Removed(name) ==
            /\ IsJsonEntry(name)
            /\ IsSome(FromFile(fs, name))
            /\ LET session == Unwrap(FromFile(fs, name))
               IN session.pid = Some(pid) /\ session.session_id /= current_session_id
    IN RemoveFiles(fs, {name \in DOMAIN fs : Removed(name)})

\* handle_hook 338-342: the sweeps of a SessionStart, project first, then PID
SessionStartSweeps(fs, pt, now, inv, safe_id) ==
    LET swept == CleanupSessionsForProject(fs, pt, now, inv.input.cwd, safe_id)
        pid == GetParentPid(inv)
    IN IF IsSome(pid) THEN CleanupSessionsWithPid(swept, Unwrap(pid), safe_id)
       ELSE swept

\* fs::write(&temp_path, &json) once it has returned
WriteTemp(fs, name, session) == PutFile(fs, TempPath(name), JsonFile(ToJson(session)))

\* fs::rename(&temp_path, path)
Rename(fs, from, to) == PutFile(RemoveFiles(fs, {from}), to, fs[from])

\* Session::write_to_file run to its end without interruption.  fault names
\* the storage call that fails, if any: "write" leaves whatever part of the
\* temp file was written, "rename" leaves the complete temp file.
WriteToFile(fs, name, session, fault) ==
    CASE fault = "none" ->
            [ok |-> TRUE, fs |-> Rename(WriteTemp(fs, name, session), TempPath(name), name)]
      [] fault = "write" ->
            [ok |-> FALSE, fs |-> PutFile(fs, TempPath(name), PartialFile)]
      [] fault = "rename" ->
            [ok |-> FALSE, fs |-> WriteTemp(fs, name, session)]


RECURSIVE ByteLen(_)
ByteLen(id) == IF Len(id) = 0 THEN 0 ELSE Utf8Len(id[1]) + ByteLen(Tail(id))

\* str::is_char_boundary
IsCharBoundary(id, k) == \E i \in 0..Len(id) : ByteLen(SubSeq(id, 1, i)) = k

SESSION_LABEL_ABBREV == 8

\* session_label: &session_id[..session_id.len().min(8)] panics when byte 8
\* falls inside a character
SessionLabelPanics(id) ==
    LET len == ByteLen(id)
        end == IF len < SESSION_LABEL_ABBREV THEN len ELSE SESSION_LABEL_ABBREV
    IN ~IsCharBoundary(id, end)

\* A handler without the early return.
ReturnsEarlyNever(event) == FALSE

\* handle_hook 273-276: the events that return before touching the store
ReturnsEarly(event) == event = "SessionEnd"

\* handle_hook from entry to return: the result, the record it built and the
\* directory it leaves
HandleHook(fs, dir, pt, e, now, inv) ==
    LET event == ParseEvent(inv.hook_name, inv.input.notification_type)
        safe_id == SanitizeSessionId(inv.input.session_id)
        branch == GetCurrentBranch(e, inv.input.cwd)
        terminal == CaptureTerminalInfo(e)
        loaded == LoadOrCreate(fs, safe_id, inv.input, branch, terminal, now)
        session == ApplyEvent(loaded, event, inv, branch, terminal, now)
        swept == IF event = "SessionStart"
                 THEN SessionStartSweeps(fs, pt, now, inv, safe_id)
                 ELSE fs
        written == WriteToFile(swept, JsonName(safe_id), session, inv.fault)
    IN IF ReturnsEarly(event)
       THEN [ok |-> TRUE, panic |-> FALSE, event |-> event, session |-> None,
             fs |-> fs, dir |-> dir]
       ELSE IF SessionLabelPanics(safe_id)
       THEN [ok |-> FALSE, panic |-> TRUE, event |-> event, session |-> None,
             fs |-> fs, dir |-> TRUE]
       ELSE [ok |-> written.ok, panic |-> FALSE, event |-> event,
             session |-> Some(session), fs |-> written.fs, dir |-> TRUE]

\* str::starts_with
StartsWith(id, prefix) ==
    Len(prefix) <= Len(id) /\ SubSeq(id, 1, Len(prefix)) = prefix

\* reset_session of the command-line tool: the record read back, the record
\* after Session::reset, the exit status and the directory afterwards.  Only
\* a prefix that matches exactly one listed session resets anything.
ResetSessionCmd(fs, now, id_prefix) ==
    LET matches == {m \in LoadAll(fs) : StartsWith(m.session_id, id_prefix)}
        session == CHOOSE m \in matches : TRUE
        name == JsonName(SanitizeSessionId(session.session_id))
        fresh == FromFile(fs, name)
        failed == [exit |-> 1, old |-> None, new |-> None, fs |-> fs]
    IN IF Cardinality(matches) /= 1 THEN failed
       ELSE IF fresh = None THEN failed
       ELSE LET after == Reset(Unwrap(fresh), now)
                written == WriteToFile(fs, name, after, "none")
            IN [exit |-> 0, old |-> fresh, new |-> Some(after), fs |-> written.fs]

\* Exit status of a process that panicked: 101 when the panic unwinds, 134
\* (SIGABRT) when the build aborts on panic.
PanicExits == {101, 134}

\* main of cctop-hook: the exit statuses it can end with and the directory it
\* leaves.  run.argv is the first argument ("none" when missing), run.stdin
\* the outcome of reading stdin, run.text what was read.
Main(fs, dir, pt, e, now, run) ==
    LET untouched == [fs |-> fs, dir |-> dir, handled |-> FALSE, ok |-> FALSE]
        Handled(r) == [fs |-> r.fs, dir |-> r.dir, handled |-> TRUE, ok |-> r.ok,
                       exits |-> IF r.panic THEN PanicExits ELSE {0}]
    IN CASE run.argv \in {"--version", "--help"} -> [untouched EXCEPT !.ok = TRUE] @@ [exits |-> {0}]
         [] run.argv = "none" -> untouched @@ [exits |-> {0}]
         [] run.stdin \in {"error", "timeout"} -> untouched @@ [exits |-> {0}]
         [] run.text /= "valid" -> untouched @@ [exits |-> {0}]
         [] OTHER -> Handled(HandleHook(fs, dir, pt, e, now, run.inv))

(***************************************************************************)
(* Environment, initial directories and the invocations that are tried     *)
(***************************************************************************)
MaxQueue == 2
MaxOps == 2

\* The thresholds the maintenance pass is run with: the 24 hours of the
\* command-line tool and a short one that some seeded records are exactly at.
MaxAges == {2, NO_PID_MAX_AGE}

\* Identifier prefixes the operator may type: one that names a single
\* session, one that names none, and the empty one that names them all.
Prefixes == {<<"a">>, <<"z">>, <<>>}

TermA == [program |-> "iTerm.app", session_id |-> Some("w0t0p0"), tty |-> Some("/dev/ttys003")]
\* TerminalInfo::default()
TermDefault == [program |-> "", session_id |-> None, tty |-> None]

Envs == {[branch |-> "main", terminal |-> TermA],
         [branch |-> "unknown", terminal |-> TermDefault]}

ProjP == <<"w", "p">>
ProjQ == <<"w", "q">>

StartTime == NO_PID_MAX_AGE + 2

BashTool == Str("Bash", 4)
NpmTest == Str("npm test", 8)

\* A record left by an earlier release: a status name this release does not
\* know, no pid field, last touched 25 hours ago.
LegacyObj ==
    [session_id |-> <<"a">>, project_path |-> ProjP, project_name |-> "p",
     branch |-> "main", status |-> "needs_input", last_prompt |-> JStr(Str("old", 3)),
     last_activity |-> StartTime - 25, started_at |-> StartTime - 26,
     terminal |-> TerminalToJson(TermA), last_tool |-> JStr(BashTool),
     last_tool_detail |-> JStr(NpmTest),
     notification_message |-> JStr(Str("note", 4)),
     context_compacted |-> JBool(TRUE)]

\* What SessionStart followed by PreToolUse leaves for a session of process pid.
RunningObj(id, project, pid, at) ==
    ToJson([SessionNew(id, project, "main", TermA, at) EXCEPT
                !.status = Working, !.pid = Some(pid),
                !.last_tool = Some(BashTool), !.last_tool_detail = Some(NpmTest),
                !.last_activity = at + 1])

SeedLegacy == (JsonName(<<"a">>) :> JsonFile(LegacyObj))

SeedLive ==
    (JsonName(<<"b">>) :> JsonFile(RunningObj(<<"b">>, ProjP, 1, StartTime - 3)))
    @@ (JsonName(<<"c">>) :> JsonFile(RunningObj(<<"c">>, ProjQ, 2, StartTime - 2)))
    @@ (JsonName(<<"e">>) :> JsonFile(RunningObj(<<"e">>, ProjP, 3, StartTime - 5)))

\* Files that a listing has to skip, next to the record e.json: a.json cut
\* short, b.json valid JSON without the status field, a copy of a record
\* under another extension.
SeedCorrupt ==
    (JsonName(<<"a">>) :> PartialFile)
    @@ (<<"c", ".", "txt">> :> JsonFile(RunningObj(<<"c">>, ProjQ, 2, StartTime - 2)))
    @@ (JsonName(<<"e">>) :> JsonFile(RunningObj(<<"e">>, ProjP, 3, StartTime - 5)))
    @@ (JsonName(<<"b">>) :>
            JsonFile([f \in DOMAIN LegacyObj \ {"status"} |-> LegacyObj[f]]))

EmptyDir == [n \in {} |-> PartialFile]

Seeds == {[dir |-> FALSE, fs |-> EmptyDir],
          [dir |-> TRUE, fs |-> SeedLegacy],
          [dir |-> TRUE, fs |-> SeedLive],
          [dir |-> TRUE, fs |-> SeedCorrupt]}

\* Process 1 and 2 run agents of this user; process 3 is another user's.
InitProcs == (1 :> "alive") @@ (2 :> "alive") @@ (3 :> "eperm")

Bare == [prompt |-> None, tool_name |-> None, tool_input |-> None,
         message |-> None, title |-> None]
Full == [prompt |-> Some(Str("Fix the bug", 11)), tool_name |-> Some(BashTool),
         tool_input |-> Some(JObj([command |-> JStr(NpmTest)])),
         message |-> Some(Str("msg", 3)), title |-> Some(Str("title", 5))]
ToolOnly == [Bare EXCEPT !.tool_name = Some(BashTool),
                         !.tool_input = Some(JObj([command |-> JStr(NpmTest)]))]

Kinds ==
    {[hook_name |-> h, notification_type |-> None] :
        h \in {"SessionStart", "UserPromptSubmit", "PreToolUse", "PostToolUse", "Stop",
               "Notification", "PermissionRequest", "PreCompact", "SessionEnd", "Bogus"}}
    \cup {[hook_name |-> "Notification", notification_type |-> Some(t)] :
            t \in {"idle_prompt", "permission_prompt", "auth_success"}}

Invocation(kind, id, cwd, ppid, payload, fault) ==
    [hook_name |-> kind.hook_name,
     input |-> [session_id |-> id, cwd |-> cwd,
                notification_type |-> kind.notification_type,
                prompt |-> payload.prompt, tool_name |-> payload.tool_name,
                tool_input |-> payload.tool_input, message |-> payload.message,
                title |-> payload.title],
     ppid |-> ppid,
     fault |-> fault]

LifecycleKinds == {k \in Kinds : k.hook_name \in {"SessionStart", "Stop", "SessionEnd"}}

\* Working directories without a final name: the root and a path that ends
\* in "..".
RootlessCwds == {<<>>, <<"w", "..">>}

StartKinds == {k \in Kinds : k.hook_name = "SessionStart"}

\* Session "a" of process 1 sends every event with every payload; the other
\* sessions (a resumed "b" in the same process, ".." whose identifier
\* sanitises to nothing, "c" of process 2) send the lifecycle events.
\* Session "d" starts in the working directories that have no final name,
\* and session "c" is also started again from process 1.
Invocations ==
    {Invocation(k, <<"a">>, ProjP, 1, p, "none") : k \in Kinds, p \in {Bare, Full, ToolOnly}}
    \cup {Invocation(k, <<"a">>, ProjP, 1, Bare, f) :
            k \in LifecycleKinds, f \in {"write", "rename"}}
    \cup {Invocation(k, <<"b">>, ProjP, 1, Bare, "none") : k \in LifecycleKinds}
    \cup {Invocation(k, <<".", ".">>, ProjQ, 1, Bare, "none") : k \in LifecycleKinds}
    \cup {Invocation(k, <<"c">>, ProjQ, 2, Bare, "none") : k \in LifecycleKinds}
    \cup {Invocation(k, <<"d">>, cwd, 1, Bare, "none") : k \in StartKinds, cwd \in RootlessCwds}
    \cup {Invocation(k, <<"c">>, ProjQ, 1, Bare, "none") : k \in StartKinds}

\* Tool payloads: each mapped tool with its field, a tool the mapping does
\* not know, and for Bash the inputs that yield no detail (no tool_input, a
\* tool_input that is not an object, another tool's field, a number, the
\* empty string) and commands at and over the length limit, in one-byte
\* and in two-byte characters.
ShortText == Str("src/main.rs", 11)

MappedTools ==
    {<<Str("Bash", 4), "command">>, <<Str("Edit", 4), "file_path">>,
     <<Str("Write", 5), "file_path">>, <<Str("Read", 4), "file_path">>,
     <<Str("Grep", 4), "pattern">>, <<Str("Glob", 4), "pattern">>,
     <<Str("WebFetch", 8), "url">>, <<Str("WebSearch", 9), "query">>,
     <<Str("Task", 4), "description">>}

ToolPayload(tool_name, tool_input) ==
    [Bare EXCEPT !.tool_name = Some(tool_name), !.tool_input = tool_input]

Commands ==
    {<<>>, Str("long", MAX_TOOL_DETAIL_LEN), Str("long", MAX_TOOL_DETAIL_LEN + 1),
     Wide("wide", MAX_TOOL_DETAIL_LEN), Wide("wide", MAX_TOOL_DETAIL_LEN + 1),
     Wide("wide", MAX_TOOL_DETAIL_LEN \div 2 + 1)}

ToolPayloads ==
    {ToolPayload(m[1], Some(JObj(m[2] :> JStr(ShortText)))) : m \in MappedTools}
    \cup {ToolPayload(Str("Agent", 5), Some(JObj("command" :> JStr(ShortText)))),
          ToolPayload(BashTool, None),
          ToolPayload(BashTool, Some(JStr(ShortText))),
          ToolPayload(BashTool, Some(JObj("file_path" :> JStr(ShortText)))),
          ToolPayload(BashTool, Some(JObj("command" :> JNum)))}
    \cup {ToolPayload(BashTool, Some(JObj("command" :> JStr(c)))) : c \in Commands}

Titled(payload) == [payload EXCEPT !.title = Some(Str("Allow Bash?", 11))]

\* Session "a" uses tools and asks for permission with every tool payload,
\* with and without a title; a few other events move the record in between.
ToolInvocations ==
    LET Kind(h) == [hook_name |-> h, notification_type |-> None]
    IN {Invocation(Kind(h), <<"a">>, ProjP, 1, p, "none") :
            h \in {"PreToolUse", "PermissionRequest"}, p \in ToolPayloads \cup {Bare}}
       \cup {Invocation(Kind("PermissionRequest"), <<"a">>, ProjP, 1, Titled(p), "none") :
                p \in {Bare, ToolOnly}}
       \cup {Invocation(Kind(h), <<"a">>, ProjP, 1, Full, "none") :
                h \in {"Notification", "Stop", "PreCompact"}}

\* An identifier of nine bytes whose eighth character is two bytes long.
LongId == <<"a", "a", "a", "a", "a", "a", "a", "U+00E9">>

Run(argv, stdin, text, inv) == [argv |-> argv, stdin |-> stdin, text |-> text, inv |-> inv]

\* The ways the hook binary is started: without a hook name, with a flag,
\* with a stdin that fails or never closes, with a payload that is not a
\* HookInput (malformed, empty, a required field missing), and with a valid
\* payload for every hook name, known or not, with and without a storage
\* failure.
Runs ==
    LET any == Invocation([hook_name |-> "Stop", notification_type |-> None],
                          <<"a">>, ProjP, 1, Bare, "none")
    IN {Run(a, "ok", "valid", any) : a \in {"none", "--version", "--help"}}
       \cup {Run("hook", i, "valid", any) : i \in {"error", "timeout"}}
       \cup {Run("hook", "ok", t, any) : t \in {"malformed", "empty", "incomplete"}}
       \cup {Run("hook", "ok", "valid", Invocation(k, <<"a">>, ProjP, 1, Full, "none")) :
                k \in Kinds}
       \cup {Run("hook", "ok", "valid", Invocation(k, id, ProjP, 1, Bare, f)) :
                k \in LifecycleKinds, id \in {<<"b">>, LongId},
                f \in {"none", "write", "rename"}}

TrIdle == [cur |-> Idle, ev |-> "Unknown", res |-> None, done |-> FALSE]
SanIdle == [raw |-> <<>>, out |-> <<>>, path |-> <<>>, done |-> FALSE]

CodecIdle == [kind |-> "none", done |-> FALSE]

\* Status names found in session files: the six this release writes, one an
\* earlier release wrote and one a later release might.
StatusNames == {"idle", "working", "compacting", "waiting_permission", "waiting_input",
                "needs_attention", "needs_input", "some_future_status"}

OptionalFields == {"last_prompt", "pid", "last_tool", "last_tool_detail",
                   "notification_message"}

\* A session file's JSON object: the required fields of LegacyObj, the
\* given status name, each optional field absent, null or set, and
\* optionally the context_compacted flag of an earlier release.
JsonInput(status, shape, extra) ==
    LET present == {f \in OptionalFields : shape[f] /= "absent"}
        dom == RequiredFields \cup present
                 \cup (IF extra THEN {"context_compacted"} ELSE {})
    IN [f \in dom |->
            CASE f = "status" -> status
              [] f = "context_compacted" -> JBool(TRUE)
              [] f \in present ->
                    IF shape[f] = "null" THEN JNull
                    ELSE IF f = "pid" THEN JInt(1) ELSE LegacyObj[f]
              [] OTHER -> LegacyObj[f]]

\* Objects that are not a Session: a required field is missing, or the pid
\* is a string.
BrokenInputs ==
    {[f \in DOMAIN LegacyObj \ {r} |-> LegacyObj[f]] : r \in RequiredFields}
    \cup {JsonInput("idle", [f \in OptionalFields |->
                                IF f = "last_tool" THEN "absent" ELSE "set"], FALSE) @@
            [last_tool |-> JInt(1)]}

JsonInputs ==
    {JsonInput(status, shape, extra) :
        status \in StatusNames,
        shape \in [OptionalFields -> {"absent", "null", "set"}],
        extra \in BOOLEAN}
    \cup BrokenInputs

\* Sessions in every status, with every combination of present and absent
\* optional fields, with and without terminal details.
SessionInputs ==
    {[SessionNew(<<"a">>, ProjP, "main", terminal, StartTime - 1) EXCEPT
            !.status = status, !.last_activity = StartTime,
            !.last_prompt = last_prompt, !.pid = pid, !.last_tool = last_tool,
            !.last_tool_detail = last_tool_detail,
            !.notification_message = notification_message] :
        status \in Status, terminal \in {TermA, TermDefault},
        last_prompt \in {None, Some(Str("Fix the bug", 11))},
        pid \in {None, Some(1)},
        last_tool \in {None, Some(BashTool)},
        last_tool_detail \in {None, Some(NpmTest)},
        notification_message \in {None, Some(Str("note", 4))}}

\* No concurrent hook process and no reader.
RaceIdle ==
    /\ hk = [h \in {1, 2} |-> [pc |-> "idle"]]
    /\ rd = [op |-> "none"]
    /\ base = [dir |-> FALSE, fs |-> EmptyDir]
    /\ receiver = <<>>

\* The store as the pure-function specifications leave it.
StoreIdle ==
    /\ files = EmptyDir
    /\ dirExists = FALSE
    /\ clock = StartTime
    /\ procs = InitProcs
    /\ env \in {e \in Envs : e.branch = "main"}
    /\ last = [op |-> "init"]
    /\ nops = 0
    /\ RaceIdle

(***************************************************************************)
(* The engine, one operation at a time                                     *)
(***************************************************************************)
Init ==
    /\ tr = TrIdle
    /\ san = SanIdle
    /\ codec = CodecIdle
    /\ \E seed \in Seeds : files = seed.fs /\ dirExists = seed.dir
    /\ clock = StartTime
    /\ procs = InitProcs
    /\ env \in Envs
    /\ last = [op |-> "init"]
    /\ nops = 0
    /\ RaceIdle

\* One run of cctop-hook by a live agent process.
Hook(inv) ==
    /\ nops < MaxOps
    /\ procs[inv.ppid] = "alive"
    /\ \E r \in {HandleHook(files, dirExists, procs, env, clock, inv)} :
          /\ files' = r.fs
          /\ dirExists' = r.dir
          /\ last' = [op |-> "hook", inv |-> inv, event |-> r.event, ok |-> r.ok,
                      session |-> r.session, before |-> files, dirBefore |-> dirExists,
                      now |-> clock, env |-> env, procs |-> procs]
    /\ nops' = nops + 1
    /\ UNCHANGED <<tr, san, codec, clock, procs, env>>
    /\ UNCHANGED raceVars

\* A reader lists the live sessions.
LoadLive ==
    /\ nops < MaxOps
    /\ LET r == LoadLiveSessions(files, procs)
       IN /\ files' = r.fs
          /\ last' = [op |-> "live", live |-> r.live, before |-> files, procs |-> procs]
    /\ nops' = nops + 1
    /\ UNCHANGED <<tr, san, codec, dirExists, clock, procs, env>>
    /\ UNCHANGED raceVars

\* A reader lists every session, dead or alive.
ListAll ==
    /\ nops < MaxOps
    /\ last' = [op |-> "all", sessions |-> LoadAll(files), ok |-> TRUE,
                before |-> files, dirBefore |-> dirExists]
    /\ nops' = nops + 1
    /\ UNCHANGED <<tr, san, codec, files, dirExists, clock, procs, env>>
    /\ UNCHANGED raceVars

\* The operator resets a stuck session from the command line.
ResetSession(id_prefix) ==
    /\ nops < MaxOps
    /\ LET r == ResetSessionCmd(files, clock, id_prefix)
       IN /\ files' = r.fs
          /\ last' = [op |-> "reset", prefix |-> id_prefix, exit |-> r.exit,
                      old |-> r.old, new |-> r.new, now |-> clock, before |-> files]
    /\ dirExists' = TRUE
    /\ nops' = nops + 1
    /\ UNCHANGED <<tr, san, codec, clock, procs, env>>
    /\ UNCHANGED raceVars

\* The maintenance pass of the command-line tool.
CleanupStale(max_age) ==
    /\ nops < MaxOps
    /\ files' = CleanupStaleSessions(files, dirExists, clock, max_age)
    /\ last' = [op |-> "stale", max_age |-> max_age, before |-> files,
                dirBefore |-> dirExists, now |-> clock, procs |-> procs]
    /\ nops' = nops + 1
    /\ UNCHANGED <<tr, san, codec, dirExists, clock, procs, env>>
    /\ UNCHANGED raceVars

Tick ==
    /\ nops < MaxOps
    /\ clock' = clock + 1
    /\ last' = [op |-> "tick"]
    /\ nops' = nops + 1
    /\ UNCHANGED <<tr, san, codec, files, dirExists, procs, env>>
    /\ UNCHANGED raceVars

\* The project changes branch and the agent moves to another terminal.
EnvChange ==
    /\ nops < MaxOps
    /\ env' \in Envs \ {env}
    /\ last' = [op |-> "env"]
    /\ nops' = nops + 1
    /\ UNCHANGED <<tr, san, codec, files, dirExists, clock, procs>>
    /\ UNCHANGED raceVars

ProcessExit(pid) ==
    /\ nops < MaxOps
    /\ procs[pid] = "alive"
    /\ procs' = [procs EXCEPT ![pid] = "dead"]
    /\ last' = [op |-> "exit"]
    /\ nops' = nops + 1
    /\ UNCHANGED <<tr, san, codec, files, dirExists, clock, env>>
    /\ UNCHANGED raceVars

Next ==
    \/ \E inv \in Invocations : Hook(inv)
    \/ LoadLive
    \/ ListAll
    \/ \E id_prefix \in Prefixes : ResetSession(id_prefix)
    \/ \E max_age \in MaxAges : CleanupStale(max_age)
    \/ Tick
    \/ EnvChange
    \/ \E pid \in DOMAIN procs : ProcessExit(pid)

Spec == Init /\ [][Next]_vars


\* One start of the cctop-hook binary, from its first line to its exit.
RunMain(run) ==
    /\ nops < MaxOps
    /\ procs[run.inv.ppid] = "alive"
    /\ \E m \in {Main(files, dirExists, procs, env, clock, run)} :
          /\ files' = m.fs
          /\ dirExists' = m.dir
          /\ \E x \in m.exits :
                last' = [op |-> "main", run |-> run, exit |-> x, handled |-> m.handled,
                         ok |-> m.ok, before |-> files, dirBefore |-> dirExists]
    /\ nops' = nops + 1
    /\ UNCHANGED <<tr, san, codec, clock, procs, env>>
    /\ UNCHANGED raceVars

\* The sequential runs of the hook with the tool payloads.
NextTool == \E inv \in ToolInvocations : Hook(inv)

SpecTool == Init /\ [][NextTool]_vars

NextMain == \E run \in Runs : RunMain(run)

SpecMain == Init /\ [][NextMain]_vars

\* The notify backend delivers an event, or an error, to the channel.
Notify(item) ==
    /\ Len(receiver) < MaxQueue
    /\ receiver' = Append(receiver, item)
    /\ UNCHANGED <<tr, san, codec, files, dirExists, clock, procs, env, last, nops, hk, rd, base>>

\* A reader's redraw loop polls the watcher.
Poll ==
    /\ nops < MaxOps
    /\ LET r == PollChanges(receiver, files, procs)
       IN /\ files' = r.fs
          /\ receiver' = r.queue
          /\ last' = [op |-> "poll", queue |-> receiver, result |-> r.result,
                      reloads |-> r.reloads, left |-> r.queue, before |-> files,
                      procs |-> procs]
    /\ nops' = nops + 1
    /\ UNCHANGED <<tr, san, codec, dirExists, clock, procs, env, hk, rd, base>>

NextWatch ==
    \/ \E item \in Pending : Notify(item)
    \/ Poll
    \/ \E pid \in DOMAIN procs : ProcessExit(pid)

\* The watcher starts on a directory that holds the records of running
\* sessions.
InitWatch ==
    /\ Init
    /\ files = SeedLive
    /\ env.branch = "main"

SpecWatch == InitWatch /\ [][NextWatch]_vars

(***************************************************************************)
(* Hook processes and a reader running concurrently.  Each slot runs one   *)
(* cctop-hook process through the system calls of handle_hook in order:    *)
(* load, the SessionStart sweeps, fs::write of the temp file (open with    *)
(* truncation, then the data), fs::rename.                                 *)
(***************************************************************************)
Slots == {1, 2}

HkIdle == [pc |-> "idle"]
Started(h) == hk[h].pc /= "idle"
Finished(h) == hk[h].pc = "done"
FinalName(h) == JsonName(hk[h].safe_id)
ContentAt(fs, name) == IF Exists(fs, name) THEN Some(fs[name]) ELSE None

RaceSeed ==
    (JsonName(<<"a">>) :> JsonFile(RunningObj(<<"a">>, ProjP, 1, StartTime - 3)))
    @@ (JsonName(<<"c">>) :> JsonFile(RunningObj(<<"c">>, ProjQ, 2, StartTime - 2)))

RaceKinds(names) == {k \in Kinds : k.hook_name \in names /\ k.notification_type = None}

\* Slot 1 is session "a" or a session named ".json"; slot 2 is session "a"
\* too, or a session whose identifier is new ("b"), sanitises to "a" ("a/")
\* or sanitises to nothing ("..").
RaceInvocations(h) ==
    IF h = 1
    THEN {Invocation(k, <<"a">>, ProjP, 1, Full, "none") :
            k \in RaceKinds({"SessionStart", "PreToolUse", "Stop", "SessionEnd"})}
         \cup {Invocation(k, <<".", "json">>, ProjP, 1, Full, "none") :
                k \in RaceKinds({"Stop"})}
    ELSE {Invocation(k, id, ProjP, 1, Full, "none") :
            k \in RaceKinds({"SessionStart", "UserPromptSubmit", "Stop"}),
            id \in {<<"a">>, <<"b">>, <<"a", "/">>, <<".", ".">>}}

InitRace ==
    /\ tr = TrIdle
    /\ san = SanIdle
    /\ codec = CodecIdle
    /\ \E seed \in {[dir |-> FALSE, fs |-> EmptyDir], [dir |-> TRUE, fs |-> RaceSeed]} :
            files = seed.fs /\ dirExists = seed.dir /\ base = seed
    /\ clock = StartTime
    /\ procs = InitProcs
    /\ env \in {e \in Envs : e.branch = "main"}
    /\ last = [op |-> "init"]
    /\ nops = 0
    /\ hk = [h \in Slots |-> HkIdle]
    /\ rd = [op |-> "none"]
    /\ receiver = <<>>

\* Open descriptors follow the inode: when name `from` is renamed to `to`, a
\* process still writing the file it opened as `from` now writes `to`, and a
\* process writing the file that `to` named before writes an unlinked file.
FollowRename(slots, from, to) ==
    [g \in Slots |->
        IF slots[g].pc = "writing" /\ slots[g].fd = Some(from)
        THEN [slots[g] EXCEPT !.fd = Some(to)]
        ELSE IF slots[g].pc = "writing" /\ slots[g].fd = Some(to)
             THEN [slots[g] EXCEPT !.fd = None]
             ELSE slots[g]]

FollowRemove(slots, names) ==
    [g \in Slots |->
        IF slots[g].pc = "writing" /\ slots[g].fd /= None /\ Unwrap(slots[g].fd) \in names
        THEN [slots[g] EXCEPT !.fd = None]
        ELSE slots[g]]

\* handle_hook 269-336: parse the event, return at once for SessionEnd,
\* otherwise create the directory, sample the environment, load or create
\* the record and apply the event to it in memory.
HookLoad(h, inv) ==
    /\ hk[h].pc = "idle"
    /\ procs[inv.ppid] = "alive"
    /\ LET event == ParseEvent(inv.hook_name, inv.input.notification_type)
           safe_id == SanitizeSessionId(inv.input.session_id)
           branch == GetCurrentBranch(env, inv.input.cwd)
           terminal == CaptureTerminalInfo(env)
           loaded == LoadOrCreate(files, safe_id, inv.input, branch, terminal, clock)
           session == ApplyEvent(loaded, event, inv, branch, terminal, clock)
           common == [inv |-> inv, event |-> event, safe_id |-> safe_id, now |-> clock,
                      env |-> env, prev |-> ContentAt(files, JsonName(safe_id)),
                      touched |-> {}, fd |-> None]
       IN IF ReturnsEarly(event)
          THEN /\ hk' = [hk EXCEPT ![h] = common @@ [pc |-> "done", ok |-> TRUE,
                                                       session |-> None]]
               /\ UNCHANGED dirExists
          ELSE /\ hk' = [hk EXCEPT ![h] = common @@
                            [pc |-> IF event = "SessionStart" THEN "sweep" ELSE "write",
                             ok |-> FALSE, session |-> Some(session)]]
               /\ dirExists' = TRUE
    /\ UNCHANGED <<tr, san, codec, files, clock, procs, env, last, nops, rd, base, receiver>>

\* handle_hook 338-342
HookSweep(h) ==
    /\ hk[h].pc = "sweep"
    /\ LET swept == SessionStartSweeps(files, procs, clock, hk[h].inv, hk[h].safe_id)
           gone == DOMAIN files \ DOMAIN swept
       IN /\ files' = swept
          /\ hk' = FollowRemove([hk EXCEPT ![h].pc = "write",
                                           ![h].touched = @ \cup gone], gone)
    /\ UNCHANGED <<tr, san, codec, dirExists, clock, procs, env, last, nops, rd, base, receiver>>

\* write_to_file 420: fs::write creates or truncates the temp file
HookWriteBegin(h) ==
    /\ hk[h].pc = "write"
    /\ files' = PutFile(files, TempPath(FinalName(h)), PartialFile)
    /\ hk' = [hk EXCEPT ![h].pc = "writing",
                        ![h].fd = Some(TempPath(FinalName(h))),
                        ![h].touched = @ \cup {TempPath(FinalName(h))}]
    /\ UNCHANGED <<tr, san, codec, dirExists, clock, procs, env, last, nops, rd, base, receiver>>

\* write_to_file 420: fs::write has written all of the text
HookWriteEnd(h) ==
    /\ hk[h].pc = "writing"
    /\ IF hk[h].fd /= None /\ Exists(files, Unwrap(hk[h].fd))
       THEN /\ files' = PutFile(files, Unwrap(hk[h].fd),
                                JsonFile(ToJson(Unwrap(hk[h].session))))
            /\ hk' = [hk EXCEPT ![h].pc = "rename",
                                ![h].touched = @ \cup {Unwrap(hk[h].fd)}]
       ELSE /\ files' = files
            /\ hk' = [hk EXCEPT ![h].pc = "rename"]
    /\ UNCHANGED <<tr, san, codec, dirExists, clock, procs, env, last, nops, rd, base, receiver>>

\* write_to_file 424: fs::rename, which fails when the temp file is gone
HookRename(h) ==
    /\ hk[h].pc = "rename"
    /\ LET from == TempPath(FinalName(h))
       IN IF Exists(files, from)
          THEN /\ files' = Rename(files, from, FinalName(h))
               /\ hk' = FollowRename([hk EXCEPT ![h].pc = "done", ![h].ok = TRUE,
                                                ![h].touched = @ \cup {from, FinalName(h)}],
                                     from, FinalName(h))
          ELSE /\ files' = files
               /\ hk' = [hk EXCEPT ![h].pc = "done", ![h].ok = FALSE]
    /\ UNCHANGED <<tr, san, codec, dirExists, clock, procs, env, last, nops, rd, base, receiver>>

\* A reader opens and reads one session file (Session::from_file).
ReadSession(name) ==
    /\ rd' = [op |-> "read", name |-> name, seen |-> ContentAt(files, name),
              pcs |-> [h \in Slots |-> hk[h].pc]]
    /\ UNCHANGED <<tr, san, codec, files, dirExists, clock, procs, env, last, nops, hk, base, receiver>>

ReadableNames == {JsonName(<<"a">>), JsonName(<<"b">>)}

NextRace ==
    \/ \E h \in Slots : \E inv \in RaceInvocations(h) : HookLoad(h, inv)
    \/ \E h \in Slots : HookSweep(h)
    \/ \E h \in Slots : HookWriteBegin(h)
    \/ \E h \in Slots : HookWriteEnd(h)
    \/ \E h \in Slots : HookRename(h)
    \/ \E name \in ReadableNames : ReadSession(name)

SpecRace == InitRace /\ [][NextRace]_vars

\* main of cctop-hook step by step.  A run that gets past its arguments
\* spawns the thread that reads stdin and blocks in recv_timeout; hk[1] is
\* the position of the process.
MainStart(run) ==
    /\ nops < MaxOps
    /\ hk[1].pc = "idle"
    /\ procs[run.inv.ppid] = "alive"
    /\ run.argv = "hook"
    /\ hk' = [hk EXCEPT ![1] = [pc |-> "waiting", run |-> run]]
    /\ nops' = nops + 1
    /\ UNCHANGED <<tr, san, codec, files, dirExists, clock, procs, env, last, rd, base,
                   receiver>>

\* main 433-460: --version, --help or no argument at all end the process
\* before stdin is looked at
MainNoInput(run) ==
    /\ hk[1].pc = "idle"
    /\ run.argv /= "hook"
    /\ RunMain(run)

\* A recv that waits for the reader thread without a time limit.
RecvBlocks ==
    /\ hk[1].pc = "waiting"
    /\ hk[1].run.stdin = "timeout"
    /\ FALSE
    /\ UNCHANGED vars

\* main 470-481, Err arm: five seconds pass without a message from the
\* reader thread; the error is logged and the process exits with status 0
RecvTimeout ==
    /\ hk[1].pc = "waiting"
    /\ hk[1].run.stdin = "timeout"
    /\ last' = [op |-> "main", run |-> hk[1].run, exit |-> 0, handled |-> FALSE,
                ok |-> FALSE, before |-> files, dirBefore |-> dirExists]
    /\ hk' = [hk EXCEPT ![1] = HkIdle]
    /\ UNCHANGED <<tr, san, codec, files, dirExists, clock, procs, env, nops, rd, base,
                   receiver>>

\* main 470-496, Ok arms: stdin closed or failed, the reader thread sent its
\* result, and the process goes on to parse and handle the payload
StdinDelivered ==
    /\ hk[1].pc = "waiting"
    /\ hk[1].run.stdin \in {"ok", "error"}
    /\ \E m \in {Main(files, dirExists, procs, env, clock, hk[1].run)} :
          /\ files' = m.fs
          /\ dirExists' = m.dir
          /\ \E x \in m.exits :
                last' = [op |-> "main", run |-> hk[1].run, exit |-> x,
                         handled |-> m.handled, ok |-> m.ok, before |-> files,
                         dirBefore |-> dirExists]
    /\ hk' = [hk EXCEPT ![1] = HkIdle]
    /\ UNCHANGED <<tr, san, codec, clock, procs, env, nops, rd, base, receiver>>

\* The runs of the step-by-step process: every way of ending before stdin
\* is read, and for a PreToolUse of session "a" every outcome of the read.
StdinRuns ==
    {run \in Runs : run.argv /= "hook"}
    \cup {Run("hook", i, t, Invocation(k, <<"a">>, ProjP, 1, Full, "none")) :
            i \in {"ok", "error", "timeout"}, t \in {"valid", "malformed"},
            k \in {x \in Kinds : x.hook_name = "PreToolUse"}}

\* Hooks of other sessions that run while the process waits.
Bystanders ==
    {Invocation(k, <<"c">>, ProjQ, 2, Bare, "none") :
        k \in {x \in LifecycleKinds : x.hook_name /= "SessionEnd"}}

\* The process starts next to no sessions directory at all or next to the
\* records of three running sessions.
InitStdin ==
    /\ tr = TrIdle
    /\ san = SanIdle
    /\ codec = CodecIdle
    /\ \E seed \in {x \in Seeds : x.fs \in {EmptyDir, SeedLive}} :
          files = seed.fs /\ dirExists = seed.dir
    /\ clock = StartTime
    /\ procs = InitProcs
    /\ env \in {e \in Envs : e.branch = "main"}
    /\ last = [op |-> "init"]
    /\ nops = 0
    /\ RaceIdle

NextStdin ==
    \/ \E run \in StdinRuns : MainStart(run)
    \/ \E run \in StdinRuns : MainNoInput(run)
    \/ RecvTimeout
    \/ StdinDelivered
    \/ \E inv \in Bystanders : Hook(inv)
    \/ Tick

\* The reader thread sends as soon as its read returns, and recv_timeout
\* returns when its five seconds are over.
SpecStdin ==
    InitStdin /\ [][NextStdin]_vars /\ WF_vars(RecvTimeout) /\ WF_vars(StdinDelivered)

(***************************************************************************)
(* A pruning pass running next to a hook process.  The pass is one of      *)
(* Session::load_all ("all"), load_live_sessions ("live"),                 *)
(* cleanup_stale_sessions ("stale") and the two sweeps of a SessionStart   *)
(* ("project", "pid"), taken through its storage calls one at a time:      *)
(* read_dir, from_file per entry, then per doomed record the existence     *)
(* test of remove_from_dir and fs::remove_file.                            *)
(***************************************************************************)
PassKinds == {"all", "live", "stale", "project", "pid"}
Sweeps == {"project", "pid"}

\* The SessionStart whose sweeps the pass runs: session "b" of process 2,
\* started in project P.
Sweeper ==
    Invocation([hook_name |-> "SessionStart", notification_type |-> None],
               <<"b">>, ProjP, 2, Bare, "none")

\* cleanup_sessions_for_project 168-186: whether the entry just read is removed
ProjectSweepRemoves(pt, now, project_path, current_session_id, session) ==
    /\ ~(session.project_path /= project_path \/ session.session_id = current_session_id)
    /\ IF IsSome(session.pid) THEN ~IsPidAlive(pt, Unwrap(session.pid))
       ELSE now - session.last_activity > NO_PID_MAX_AGE

\* cleanup_sessions_with_pid 143-146
PidSweepRemoves(pid, current_session_id, session) ==
    session.pid = Some(pid) /\ session.session_id /= current_session_id

\* load_live_sessions 663-670 and cleanup_stale_sessions 465-472: whether the
\* loaded record is removed
LoadedIsRemoved(kind, pt, now, max_age, session) ==
    CASE kind = "live" -> IsSome(session.pid) /\ ~IsPidAlive(pt, Unwrap(session.pid))
      [] kind = "stale" -> now - session.last_activity > max_age
      [] OTHER -> FALSE

\* The phase after the entries are read: the passes built on load_all go on
\* to their loop over the loaded sessions.
AfterRead(kind, entries) ==
    IF entries = {} /\ kind \in {"live", "stale"} THEN "loop" ELSE "read"

\* The pass has returned Ok.
PassReturnedOk ==
    /\ rd.op = "pass"
    /\ \/ rd.pc = "read" /\ rd.entries = {}
       \/ rd.pc = "loop" /\ rd.sessions = {}

\* The pass has returned an error.
PassReturnedErr == rd.op = "pass" /\ rd.pc = "failed"

\* The pass starts: Utc::now() and fs::read_dir
PassList(kind, max_age) ==
    /\ rd.op = "none"
    /\ LET entries == {n \in DOMAIN files : IsJsonEntry(n)}
       IN rd' = [op |-> "pass", kind |-> kind, max_age |-> max_age, now |-> clock,
                 listed |-> entries, entries |-> entries, sessions |-> {},
                 loaded |-> {}, pc |-> AfterRead(kind, entries), target |-> <<>>,
                 basis |-> None, deleted |-> None, missed |-> {}]
    /\ UNCHANGED <<tr, san, codec, files, dirExists, clock, procs, env, last, nops, hk,
                   base, receiver>>

\* Session::from_file on one listed entry.  load_all keeps the record for
\* later or skips the entry with a warning; a sweep decides at once.
PassRead ==
    /\ rd.op = "pass" /\ rd.pc = "read"
    /\ \E name \in rd.entries :
       LET r == FromFile(files, name)
           left == rd.entries \ {name}
           doomed ==
               /\ IsSome(r)
               /\ CASE rd.kind = "project" ->
                          ProjectSweepRemoves(procs, rd.now, Sweeper.input.cwd,
                                              SanitizeSessionId(Sweeper.input.session_id),
                                              Unwrap(r))
                    [] rd.kind = "pid" ->
                          PidSweepRemoves(Sweeper.ppid,
                                          SanitizeSessionId(Sweeper.input.session_id),
                                          Unwrap(r))
                    [] OTHER -> FALSE
       IN rd' = IF doomed
                THEN [rd EXCEPT !.entries = left, !.pc = "remove", !.target = name,
                                !.basis = r]
                ELSE [rd EXCEPT !.entries = left,
                                !.sessions = IF IsSome(r) /\ rd.kind \notin Sweeps
                                             THEN @ \cup {Unwrap(r)} ELSE @,
                                !.loaded = IF IsSome(r) THEN @ \cup {name} ELSE @,
                                !.missed = IF Exists(files, name) THEN @ ELSE @ \cup {name},
                                !.pc = AfterRead(rd.kind, left)]
    /\ UNCHANGED <<tr, san, codec, files, dirExists, clock, procs, env, last, nops, hk,
                   base, receiver>>

\* One turn of the loop over the loaded sessions: the test of the record
\* and, for a record to remove, the path.exists() of remove_from_dir.
PassDecide ==
    /\ rd.op = "pass" /\ rd.pc = "loop"
    /\ \E session \in rd.sessions :
       LET name == JsonName(SanitizeSessionId(session.session_id))
           doomed == LoadedIsRemoved(rd.kind, procs, rd.now, rd.max_age, session)
       IN rd' = IF doomed /\ Exists(files, name)
                THEN [rd EXCEPT !.sessions = @ \ {session}, !.pc = "remove",
                                !.target = name, !.basis = Some(session)]
                ELSE [rd EXCEPT !.sessions = @ \ {session},
                                !.missed = IF doomed THEN @ \cup {name} ELSE @]
    /\ UNCHANGED <<tr, san, codec, files, dirExists, clock, procs, env, last, nops, hk,
                   base, receiver>>

\* fs::remove_file on the doomed path.  It fails when the file is gone; the
\* sweeps and load_live_sessions drop the error, cleanup_stale_sessions
\* returns it.
PassRemove ==
    /\ rd.op = "pass" /\ rd.pc = "remove"
    /\ LET back == IF rd.kind \in Sweeps THEN AfterRead(rd.kind, rd.entries) ELSE "loop"
       IN IF Exists(files, rd.target)
          THEN /\ files' = RemoveFiles(files, {rd.target})
               /\ hk' = FollowRemove(hk, {rd.target})
               /\ rd' = [rd EXCEPT !.pc = back,
                                   !.deleted = Some([name |-> rd.target,
                                                     held |-> files[rd.target],
                                                     basis |-> rd.basis,
                                                     procs |-> procs, now |-> clock])]
          ELSE /\ files' = files
               /\ hk' = hk
               /\ rd' = [rd EXCEPT !.pc = IF rd.kind = "stale" THEN "failed" ELSE back,
                                   !.missed = @ \cup {rd.target}]
    /\ UNCHANGED <<tr, san, codec, dirExists, clock, procs, env, last, nops, base,
                   receiver>>

\* The directory the passes run on: session "a" of project P, whose process
\* is gone and which was last active 25 hours ago, and session "c" of
\* project Q, run by process 2 and active 3 hours ago.
PruneSeed ==
    (JsonName(<<"a">>) :> JsonFile(RunningObj(<<"a">>, ProjP, 3, StartTime - 26)))
    @@ (JsonName(<<"c">>) :> JsonFile(RunningObj(<<"c">>, ProjQ, 2, StartTime - 4)))

\* The hook events that arrive during a pass: session "a" is resumed by
\* process 1 or stops, and process 1 starts a session "d" in project P.
PruneInvocations ==
    {Invocation(k, <<"a">>, ProjP, 1, Full, "none") :
        k \in RaceKinds({"SessionStart", "Stop", "SessionEnd"})}
    \cup {Invocation(k, <<"d">>, ProjP, 1, Full, "none") : k \in RaceKinds({"SessionStart"})}

InitPrune ==
    /\ tr = TrIdle
    /\ san = SanIdle
    /\ codec = CodecIdle
    /\ files = PruneSeed /\ dirExists = TRUE
    /\ base = [dir |-> TRUE, fs |-> PruneSeed]
    /\ clock = StartTime
    /\ procs = [InitProcs EXCEPT ![3] = "dead"]
    /\ env \in {e \in Envs : e.branch = "main"}
    /\ last = [op |-> "init"]
    /\ nops = 0
    /\ hk = [h \in Slots |-> HkIdle]
    /\ rd = [op |-> "none"]
    /\ receiver = <<>>

NextPrune ==
    \/ \E inv \in PruneInvocations : HookLoad(1, inv)
    \/ HookSweep(1)
    \/ HookWriteBegin(1)
    \/ HookWriteEnd(1)
    \/ HookRename(1)
    \/ \E kind \in PassKinds : \E max_age \in MaxAges : PassList(kind, max_age)
    \/ PassRead
    \/ PassDecide
    \/ PassRemove
    \/ \E pid \in DOMAIN procs : ProcessExit(pid)

SpecPrune == InitPrune /\ [][NextPrune]_vars

(***************************************************************************)
(* Specifications that apply the pure functions to every input             *)
(***************************************************************************)
InitTable ==
    /\ tr \in [cur : Status, ev : HookEvent, res : {None}, done : {FALSE}]
    /\ san = SanIdle
    /\ codec = CodecIdle
    /\ StoreIdle

ApplyTransition ==
    /\ ~tr.done
    /\ tr' = [tr EXCEPT !.res = ForEvent(tr.cur, tr.ev), !.done = TRUE]
    /\ UNCHANGED <<san, codec>>
    /\ UNCHANGED storeVars

NextTable == ApplyTransition

SpecTable == InitTable /\ [][NextTable]_vars

InitSanitize ==
    /\ san \in [raw : SeqsUpTo(IdChars, MaxIdLen), out : {<<>>}, path : {<<>>},
                done : {FALSE}]
    /\ tr = TrIdle
    /\ codec = CodecIdle
    /\ StoreIdle

ApplySanitize ==
    /\ ~san.done
    /\ san' = [san EXCEPT !.out = SanitizeSessionId(san.raw),
                          !.path = FilePath(SessionsDir, san.raw),
                          !.done = TRUE]
    /\ UNCHANGED <<tr, codec>>
    /\ UNCHANGED storeVars

NextSanitize == ApplySanitize

SpecSanitize == InitSanitize /\ [][NextSanitize]_vars

InitCodec ==
    /\ codec \in {[kind |-> "json", obj |-> o, out |-> None, done |-> FALSE] :
                        o \in JsonInputs}
               \cup {[kind |-> "session", session |-> x, json |-> ToJson(x),
                       out |-> None, done |-> FALSE] : x \in SessionInputs}
    /\ tr = TrIdle
    /\ san = SanIdle
    /\ StoreIdle

\* Session::from_json on the text of a session file
Deserialize ==
    /\ codec.kind = "json" /\ ~codec.done
    /\ codec' = [codec EXCEPT !.out = FromJson(codec.obj), !.done = TRUE]
    /\ UNCHANGED <<tr, san>>
    /\ UNCHANGED storeVars

\* serde_json::to_string_pretty followed by Session::from_json
RoundTrip ==
    /\ codec.kind = "session" /\ ~codec.done
    /\ codec' = [codec EXCEPT !.out = FromJson(ToJson(codec.session)), !.done = TRUE]
    /\ UNCHANGED <<tr, san>>
    /\ UNCHANGED storeVars

NextCodec == Deserialize \/ RoundTrip

SpecCodec == InitCodec /\ [][NextCodec]_vars

(***************************************************************************)
(* C1: for_event is defined for every (status, event) pair, including the  *)
(* fallback status NeedsAttention, and its result is the table entry of    *)
(* the event alone.                                                        *)
(***************************************************************************)
TableTarget(event) ==
    CASE event \in {"SessionStart", "Stop"} -> Some(Idle)
      [] event \in {"UserPromptSubmit", "PreToolUse", "PostToolUse"} -> Some(Working)
      [] event = "NotificationIdle" -> Some(WaitingInput)
      [] event \in {"NotificationPermission", "PermissionRequest"} -> Some(WaitingPermission)
      [] event = "PreCompact" -> Some(Compacting)
      [] event \in {"NotificationOther", "SessionEnd", "Unknown"} -> None

C1_TransitionByEventOnly ==
    tr.done => /\ tr.res = TableTarget(tr.ev)
               /\ \A s \in Status : ForEvent(s, tr.ev) = tr.res

C1_Witness ==
    tr.done /\ tr.cur = NeedsAttention /\ tr.ev = "Stop" /\ tr.res = Some(Idle)

(***************************************************************************)
(* C3: the sanitised identifier has no '/', no '\' and no ".." and the     *)
(* session file path is a direct child of the sessions directory.          *)
(***************************************************************************)
HasDotDot(s) == \E i \in 1..(Len(s) - 1) : s[i] = "." /\ s[i + 1] = "."

C3_SanitizedStaysInside ==
    san.done =>
        /\ \A i \in 1..Len(san.out) : san.out[i] \notin {"/", "\\"}
        /\ ~HasDotDot(san.out)
        /\ Len(san.path) = Len(SessionsDir) + 1
        /\ SubSeq(san.path, 1, Len(SessionsDir)) = SessionsDir

C3_Witness ==
    /\ san.done
    /\ san.raw = <<".", "/", ".", "a">>
    /\ san.out = <<"a">>
    /\ san.path = Append(SessionsDir, <<"a", ".", "json">>)

(***************************************************************************)
(* The record that the hook handled last owns, before and after it ran     *)
(***************************************************************************)
OwnName == JsonName(SanitizeSessionId(last.inv.input.session_id))
OwnBefore == FromFile(last.before, OwnName)
OwnAfter == FromFile(files, OwnName)
HookDone(event) == last.op = "hook" /\ last.event = event
\* The session files "<id>.json" of a directory that hold a parseable record.
IsSessionFile(n) == Len(n) >= 2 /\ SubSeq(n, Len(n) - 1, Len(n)) = <<".", "json">>
Records(fs) == {n \in DOMAIN fs : IsSessionFile(n) /\ IsSome(FromFile(fs, n))}
Rec(fs, n) == Unwrap(FromFile(fs, n))

(***************************************************************************)
(* C5: after a Stop, from whatever status, the persisted record is Idle    *)
(* and last_tool, last_tool_detail and notification_message are empty.     *)
(***************************************************************************)
C5_StopPersistsIdle ==
    (HookDone("Stop") /\ last.ok) =>
        /\ IsSome(OwnAfter)
        /\ Unwrap(OwnAfter).status = Idle
        /\ Unwrap(OwnAfter).last_tool = None
        /\ Unwrap(OwnAfter).last_tool_detail = None
        /\ Unwrap(OwnAfter).notification_message = None

C5_Witness ==
    /\ HookDone("Stop") /\ last.ok
    /\ IsSome(OwnBefore)
    /\ Unwrap(OwnBefore).status = NeedsAttention
    /\ IsSome(Unwrap(OwnBefore).last_tool)
    /\ IsSome(Unwrap(OwnBefore).notification_message)
    /\ Unwrap(OwnAfter).status = Idle

(***************************************************************************)
(* C6: every hook event that returns Ok, SessionEnd included, has          *)
(* persisted the record with last_activity = now and the freshly sampled   *)
(* branch and terminal.  The code does so for every event but SessionEnd.  *)
(***************************************************************************)
PersistedRefreshed ==
    /\ IsSome(OwnAfter)
    /\ Unwrap(OwnAfter).last_activity = last.now
    /\ Unwrap(OwnAfter).branch = last.env.branch
    /\ Unwrap(OwnAfter).terminal = last.env.terminal

C7_SessionEndIsNoOp ==
    HookDone("SessionEnd") =>
        /\ last.ok
        /\ files = last.before
        /\ dirExists = last.dirBefore

C7_Witness ==
    /\ HookDone("SessionEnd")
    /\ IsSome(OwnBefore)
    /\ Unwrap(OwnBefore).last_activity < last.now
    /\ files = last.before

(***************************************************************************)
(* C8: after a SessionStart for X from parent process P, every other       *)
(* record with pid P is gone, X's record carries P and is the only one     *)
(* that does, and records with another PID in another project are as they  *)
(* were.                                                                   *)
(***************************************************************************)
C8_SessionStartSupersedesPid ==
    (HookDone("SessionStart") /\ last.ok) =>
        LET P == Some(last.inv.ppid)
        IN /\ \A n \in Records(last.before) :
                (n /= OwnName /\ Rec(last.before, n).pid = P) => ~Exists(files, n)
           /\ IsSome(OwnAfter) /\ Unwrap(OwnAfter).pid = P
           /\ \A n \in Records(files) : Rec(files, n).pid = P => n = OwnName
           /\ \A n \in Records(last.before) :
                (/\ IsSome(Rec(last.before, n).pid)
                 /\ Rec(last.before, n).pid /= P
                 /\ Rec(last.before, n).project_path /= last.inv.input.cwd)
                => (Exists(files, n) /\ files[n] = last.before[n])

(***************************************************************************)
(* C9: load_live_sessions returns exactly the loadable records with no PID *)
(* or with a PID whose process exists, deletes the file of every record    *)
(* whose process does not exist, and never deletes a record without PID.   *)
(***************************************************************************)
C9_LiveListingIsExact ==
    last.op = "live" =>
        LET loaded == LoadAll(last.before)
            Gone(s) == IsSome(s.pid) /\ ~ProcessExists(last.procs, Unwrap(s.pid))
            NameOf(s) == JsonName(SanitizeSessionId(s.session_id))
        IN /\ last.live = {s \in loaded : ~Gone(s)}
           /\ \A s \in loaded : Gone(s) => ~Exists(files, NameOf(s))
           /\ \A s \in loaded : s.pid = None =>
                (Exists(files, NameOf(s)) /\ files[NameOf(s)] = last.before[NameOf(s)])

(***************************************************************************)
(* C10: a record whose PID probe fails with an error other than "no such   *)
(* process" is kept by load_live_sessions and by the SessionStart project  *)
(* sweep.                                                                  *)
(***************************************************************************)
C10_ProbeErrorKeepsRecord ==
    (last.op = "live" \/ (HookDone("SessionStart") /\ last.ok)) =>
        \A n \in Records(last.before) :
            LET s == Rec(last.before, n)
            IN (IsSome(s.pid) /\ Kill0(last.procs, Unwrap(s.pid)).errno = "EPERM")
               => Exists(files, n)

(***************************************************************************)
(* C2: while one hook process, the only one running, is inside             *)
(* write_to_file (or has just left it), a reader of the final session path *)
(* sees the complete previous file, or none if there was none, or the      *)
(* complete new record, and never a partial one.                           *)
(***************************************************************************)
NewFile(h) == Some(JsonFile(ToJson(Unwrap(hk[h].session))))

ReadDuringWriteOf(h) ==
    /\ rd.op = "read"
    /\ rd.pcs[h] \in {"write", "writing", "rename", "done"}
    /\ \A g \in Slots \ {h} : rd.pcs[g] = "idle"
    /\ hk[h].session /= None
    /\ rd.name = FinalName(h)

C2_ReaderSeesWholeRecord ==
    \A h \in Slots :
        ReadDuringWriteOf(h) =>
            /\ rd.seen \in {hk[h].prev, NewFile(h)}
            /\ rd.seen /= None => Unwrap(rd.seen).kind = "json"

C2_Witness ==
    /\ ReadDuringWriteOf(1)
    /\ rd.pcs[1] = "writing"
    /\ hk[1].prev /= None
    /\ hk[1].prev /= NewFile(1)
    /\ rd.seen = hk[1].prev

(***************************************************************************)
(* C4: two hook invocations with different identifiers never conflict:     *)
(* each touches only its own session file (and its temp file), and after   *)
(* both have finished each identifier's file is what its invocation        *)
(* leaves when run alone on the directory they started from.               *)
(***************************************************************************)
AllFinished == \A h \in Slots : Finished(h)

Solo(h) == HandleHook(base.fs, base.dir, procs, hk[h].env, hk[h].now, hk[h].inv)

RanAsAlone(h) ==
    /\ hk[h].touched \subseteq {FinalName(h), TempPath(FinalName(h))}
    /\ hk[h].ok = Solo(h).ok
    /\ ContentAt(files, FinalName(h)) = ContentAt(Solo(h).fs, FinalName(h))

C4_DistinctIdentifiersNeverConflict ==
    (AllFinished /\ hk[1].inv.input.session_id /= hk[2].inv.input.session_id)
        => \A h \in Slots : RanAsAlone(h)

\* C4 as the code has it: the identifiers must sanitise to different,
\* non-empty names and neither invocation may be a SessionStart, whose
\* sweeps delete other sessions' files.
C4_DistinctFilesNeverConflict ==
    (/\ AllFinished
     /\ hk[1].safe_id /= hk[2].safe_id
     /\ \A h \in Slots : hk[h].safe_id /= <<>> /\ hk[h].event /= "SessionStart")
        => \A h \in Slots : RanAsAlone(h)

C4_Witness ==
    /\ AllFinished
    /\ hk[1].safe_id = <<"a">> /\ hk[2].safe_id = <<"b">>
    /\ hk[1].event = "PreToolUse" /\ hk[2].event = "UserPromptSubmit"
    /\ hk[1].prev /= None /\ hk[2].prev = None
    /\ ContentAt(files, FinalName(1)) = NewFile(1)
    /\ ContentAt(files, FinalName(2)) = NewFile(2)
    /\ \A h \in Slots : RanAsAlone(h)
(***************************************************************************)
(* C11: cleanup_stale_sessions removes exactly the files of the loadable   *)
(* records whose age is strictly greater than max_age, with or without a   *)
(* PID and whatever the state of that process, leaves every other file as  *)
(* it was, and does nothing when the directory is missing.                 *)
(***************************************************************************)
StaleIn(fs, n, now, max_age) ==
    /\ IsJsonEntry(n)
    /\ IsSome(FromFile(fs, n))
    /\ now - Rec(fs, n).last_activity > max_age

C11_StaleCleanupIsExact ==
    last.op = "stale" =>
        /\ DOMAIN files \subseteq DOMAIN last.before
        /\ \A n \in DOMAIN last.before :
              IF StaleIn(last.before, n, last.now, last.max_age)
              THEN ~Exists(files, n)
              ELSE Exists(files, n) /\ files[n] = last.before[n]
        /\ ~last.dirBefore => (files = last.before /\ ~dirExists)

\* a pass that removed an old record with a live PID and one without a PID,
\* and kept a record exactly max_age old
C11_Witness ==
    /\ last.op = "stale"
    /\ \E n \in DOMAIN last.before :
          /\ StaleIn(last.before, n, last.now, last.max_age)
          /\ IsSome(Rec(last.before, n).pid)
          /\ IsPidAlive(last.procs, Unwrap(Rec(last.before, n).pid))
          /\ ~Exists(files, n)
    /\ \E n \in Records(last.before) :
          /\ last.now - Rec(last.before, n).last_activity = last.max_age
          /\ Exists(files, n)

(***************************************************************************)
(* C12: the project sweep of a SessionStart deletes a record of the same   *)
(* project, other than the current session's, exactly when its process is  *)
(* gone or it has no PID and is more than 24 hours old; the current         *)
(* session's record and the records of other projects stay.  Records that   *)
(* carry the PID of the invoking process are left to the PID sweep.         *)
(***************************************************************************)
C12_ProjectSweepIsExact ==
    (HookDone("SessionStart") /\ last.ok) =>
        /\ Exists(files, OwnName)
        /\ \A n \in Records(last.before) \ {OwnName} :
              LET s == Rec(last.before, n)
                  SameProject == s.project_path = last.inv.input.cwd
                  Gone == IF IsSome(s.pid)
                          THEN ~ProcessExists(last.procs, Unwrap(s.pid))
                          ELSE last.now - s.last_activity > NO_PID_MAX_AGE
              IN s.pid /= Some(last.inv.ppid) =>
                    IF SameProject /\ Gone
                    THEN ~Exists(files, n)
                    ELSE Exists(files, n) /\ files[n] = last.before[n]

(***************************************************************************)
(* C13: the cctop-hook process exits with status 0 however it was started  *)
(* and whatever happened while it handled the event, and a start that      *)
(* fails before the event is handled leaves the session files alone.       *)
(***************************************************************************)
InputError(run) ==
    \/ run.argv = "none"
    \/ run.stdin \in {"error", "timeout"}
    \/ run.text /= "valid"

C13_AlwaysExitsZero ==
    last.op = "main" =>
        /\ last.exit = 0
        /\ InputError(last.run) => (files = last.before /\ dirExists = last.dirBefore)

(***************************************************************************)
(* C14: a hook event for an identifier that already has a record leaves    *)
(* started_at as it was, and the record it writes has last_activity = now.  *)
(***************************************************************************)
C14_StartedAtImmutable ==
    (last.op = "hook" /\ last.ok /\ IsSome(OwnBefore)) =>
        /\ IsSome(OwnAfter)
        /\ Unwrap(OwnAfter).started_at = Unwrap(OwnBefore).started_at
        /\ IsSome(last.session) => Unwrap(OwnAfter).last_activity = last.now

C14_Witness ==
    /\ last.op = "hook" /\ last.ok /\ IsSome(OwnBefore) /\ IsSome(last.session)
    /\ last.event = "SessionStart"
    /\ Unwrap(OwnBefore).started_at < last.now
    /\ Unwrap(OwnBefore).last_activity < last.now
    /\ Unwrap(OwnAfter).started_at = Unwrap(OwnBefore).started_at
    /\ Unwrap(OwnAfter).last_activity = last.now

(***************************************************************************)
(* C15: on an existing record a hook event changes only the fields it      *)
(* owns.  The identity fields and started_at never change; pid changes     *)
(* only on SessionStart; last_prompt only on a UserPromptSubmit with a     *)
(* prompt; last_tool and last_tool_detail only on the events that clear    *)
(* them and on a PreToolUse that names a tool; notification_message only   *)
(* on the events that clear it, on PermissionRequest and on a Notification *)
(* with a message.                                                         *)
(***************************************************************************)
ClearsTool == {"SessionStart", "UserPromptSubmit", "PermissionRequest", "Stop",
               "NotificationIdle", "NotificationPermission", "NotificationOther"}

ClearsMessage == {"SessionStart", "UserPromptSubmit", "Stop"}

Notifications == {"NotificationIdle", "NotificationPermission", "NotificationOther"}

C15_EventsChangeOnlyOwnedFields ==
    (last.op = "hook" /\ last.ok /\ IsSome(OwnBefore)) =>
        LET old == Unwrap(OwnBefore)
            new == Unwrap(OwnAfter)
            input == last.inv.input
        IN /\ IsSome(OwnAfter)
           /\ new.session_id = old.session_id
           /\ new.project_path = old.project_path
           /\ new.project_name = old.project_name
           /\ new.started_at = old.started_at
           /\ new.pid /= old.pid => last.event = "SessionStart"
           /\ new.last_prompt /= old.last_prompt =>
                 (last.event = "UserPromptSubmit" /\ IsSome(input.prompt))
           /\ (new.last_tool /= old.last_tool \/ new.last_tool_detail /= old.last_tool_detail) =>
                 \/ last.event \in ClearsTool /\ new.last_tool = None
                                             /\ new.last_tool_detail = None
                 \/ last.event = "PreToolUse" /\ IsSome(input.tool_name)
           /\ new.notification_message /= old.notification_message =>
                 \/ last.event \in ClearsMessage /\ new.notification_message = None
                 \/ last.event = "PermissionRequest"
                 \/ last.event \in Notifications /\ IsSome(input.message)

\* a PostToolUse that left the tool, its detail and the notification message
\* of the record in place while refreshing last_activity
C15_Witness ==
    /\ HookDone("PostToolUse") /\ last.ok /\ IsSome(OwnBefore)
    /\ IsSome(Unwrap(OwnBefore).last_tool)
    /\ IsSome(Unwrap(OwnBefore).last_tool_detail)
    /\ IsSome(Unwrap(OwnBefore).notification_message)
    /\ Unwrap(OwnAfter).last_tool = Unwrap(OwnBefore).last_tool
    /\ Unwrap(OwnAfter).last_tool_detail = Unwrap(OwnBefore).last_tool_detail
    /\ Unwrap(OwnAfter).notification_message = Unwrap(OwnBefore).notification_message
    /\ Unwrap(OwnAfter).last_activity /= Unwrap(OwnBefore).last_activity

(***************************************************************************)
(* C16: an event other than SessionEnd for an identifier whose file is     *)
(* missing or does not parse is never aborted: it is applied to a fresh    *)
(* record (Idle, nothing transient, no PID, started_at = now) and the      *)
(* result is persisted in place of the unreadable file.                    *)
(***************************************************************************)
C16_MissingOrCorruptStartsFresh ==
    (last.op = "hook" /\ last.event /= "SessionEnd" /\ last.inv.fault = "none"
        /\ OwnBefore = None) =>
        LET new == Unwrap(OwnAfter)
            input == last.inv.input
            target == TableTarget(last.event)
        IN /\ last.ok
           /\ IsSome(OwnAfter)
           /\ new.session_id = SanitizeSessionId(input.session_id)
           /\ new.project_path = input.cwd
           /\ new.status = (IF IsSome(target) THEN Unwrap(target) ELSE Idle)
           /\ new.started_at = last.now
           /\ new.last_activity = last.now
           /\ new.pid = (IF last.event = "SessionStart" THEN Some(last.inv.ppid) ELSE None)
           /\ new.last_prompt =
                 (IF last.event = "UserPromptSubmit" THEN input.prompt ELSE None)
           /\ new.last_tool = (IF last.event = "PreToolUse" THEN input.tool_name ELSE None)
           /\ last.event /= "PreToolUse" => new.last_tool_detail = None
           /\ new.notification_message =
                 (CASE last.event = "PermissionRequest" -> PermissionMessage(input)
                    [] last.event \in Notifications -> input.message
                    [] OTHER -> None)

\* a preserving event that replaced a file that did not parse
C16_Witness ==
    /\ last.op = "hook" /\ last.ok
    /\ last.event \in {"PostToolUse", "Unknown", "NotificationOther"}
    /\ Exists(last.before, OwnName)
    /\ OwnBefore = None
    /\ IsSome(OwnAfter)
    /\ Unwrap(OwnAfter).status = Idle
    /\ Unwrap(OwnAfter).started_at = last.now

(***************************************************************************)
(* C17: load_all returns exactly the records parsed from the files whose   *)
(* extension is json.  Temp files, files with another extension and json   *)
(* files that do not parse are skipped without failing the listing, which  *)
(* changes nothing, and a missing directory gives the empty list.  A name  *)
(* has the extension json when it is a non-empty stem followed by ".json".  *)
(***************************************************************************)
HasJsonExtension(n) ==
    Len(n) >= 3 /\ n[Len(n) - 1] = "." /\ n[Len(n)] = "json"

C17_LoadAllListsJsonRecords ==
    last.op = "all" =>
        /\ last.ok
        /\ files = last.before
        /\ \A n \in DOMAIN last.before :
              (HasJsonExtension(n) /\ last.before[n].kind = "json"
                 /\ RequiredFields \subseteq DOMAIN last.before[n].obj)
              => \E s \in last.sessions :
                    /\ s.session_id = last.before[n].obj.session_id
                    /\ s.last_activity = last.before[n].obj.last_activity
        /\ \A s \in last.sessions :
              \E n \in DOMAIN last.before :
                  /\ HasJsonExtension(n)
                  /\ FromFile(last.before, n) = Some(s)
        /\ ~last.dirBefore => last.sessions = {}

\* a listing that returned a record and skipped a temp file or a file with
\* another extension, and a json file that does not parse
C17_Witness ==
    /\ last.op = "all"
    /\ last.sessions /= {}
    /\ \E n \in DOMAIN last.before :
          ~HasJsonExtension(n) /\ IsSome(FromFile(last.before, n))
    /\ \E n \in DOMAIN last.before :
          HasJsonExtension(n) /\ FromFile(last.before, n) = None

(***************************************************************************)
(* C18: at the step at which write_to_file returns Ok, no other process    *)
(* being inside write_to_file for the same identifier, the temp file       *)
(* <id>.json.tmp is gone and <id>.json parses to the record that was       *)
(* written.                                                                *)
(***************************************************************************)
InWriteToFile(g) == hk[g].pc \in {"write", "writing", "rename"}

SoleWriterOfId(h) ==
    \A g \in Slots \ {h} : InWriteToFile(g) => hk[g].safe_id /= hk[h].safe_id

ReturnsOk(h) == hk[h].pc = "rename" /\ hk'[h].pc = "done" /\ hk'[h].ok

C18_WriteLeavesOnlyFinalFile ==
    [][\A h \in Slots :
        (ReturnsOk(h) /\ SoleWriterOfId(h)) =>
            /\ ~Exists(files', FinalName(h) \o <<".", "tmp">>)
            /\ ~Exists(files', TempPath(FinalName(h)))
            /\ FromFile(files', FinalName(h)) = hk[h].session]_vars

(***************************************************************************)
(* C19: poll_changes empties the channel and returns None, without         *)
(* touching the store, when none of the pending events was a Create, a     *)
(* Modify or a Remove, and Some(load_live_sessions) after exactly one       *)
(* reload when at least one was, however many were pending.                *)
(***************************************************************************)
AskedForReload(queue) ==
    \E i \in DOMAIN queue : queue[i].kind \in {"Create", "Modify", "Remove"}

C20_ResetClearsTransientOnly ==
    (last.op = "reset" /\ IsSome(last.new)) =>
        LET old == Unwrap(last.old)
            new == Unwrap(last.new)
        IN /\ new.status = Idle
           /\ new.last_tool = None
           /\ new.last_tool_detail = None
           /\ new.notification_message = None
           /\ new.last_activity = last.now
           /\ new.last_activity >= old.last_activity
           /\ new.session_id = old.session_id
           /\ new.project_path = old.project_path
           /\ new.project_name = old.project_name
           /\ new.branch = old.branch
           /\ new.pid = old.pid
           /\ new.terminal = old.terminal
           /\ new.last_prompt = old.last_prompt
           /\ new.started_at = old.started_at

\* a reset of a record that was waiting for a permission, with a prompt and
\* a notification message
C20_Witness ==
    /\ last.op = "reset" /\ IsSome(last.new)
    /\ Unwrap(last.old).status = WaitingPermission
    /\ IsSome(Unwrap(last.old).notification_message)
    /\ IsSome(Unwrap(last.old).last_prompt)
    /\ Unwrap(last.new).status = Idle
    /\ Unwrap(last.new).last_prompt = Unwrap(last.old).last_prompt
    /\ Rec(files, JsonName(<<"a">>)) = Unwrap(last.new)

(***************************************************************************)
(* C21: with one operation at a time and a clock that never steps back, no *)
(* hook event, reset or other operation lowers the last_activity of a      *)
(* record that stays in the store, and no stored last_activity is ahead of *)
(* the clock, so a record written later for the same identifier is never   *)
(* older than one written before.                                          *)
(***************************************************************************)
C21_LastActivityNeverDecreases ==
    [][/\ \A n \in Records(files) \cap Records(files') :
              Rec(files', n).last_activity >= Rec(files, n).last_activity
       /\ \A n \in Records(files') : Rec(files', n).last_activity <= clock']_vars

\* a reset of a record that a hook event had refreshed before
C21_Witness ==
    /\ last.op = "reset" /\ IsSome(last.new)
    /\ Unwrap(last.old).started_at < Unwrap(last.old).last_activity
    /\ Unwrap(last.old).last_activity = StartTime
    /\ Unwrap(last.old).status /= Idle
    /\ Unwrap(last.new).last_activity >= Unwrap(last.old).last_activity
    /\ Rec(files, JsonName(<<"a">>)).last_activity = Unwrap(last.new).last_activity

(***************************************************************************)
(* C22: a JSON object with every required field deserialises; a status     *)
(* name that is not one of the known names gives NeedsAttention, a known   *)
(* name gives its status; pid, last_tool, last_tool_detail and             *)
(* notification_message load as None when the key is missing; an unknown   *)
(* key such as context_compacted changes nothing.                          *)
(***************************************************************************)
KnownNames == {"idle", "working", "compacting", "waiting_permission", "waiting_input"}

SessionFields == RequiredFields \cup OptionalFields

C22_UnknownStatusAndMissingFieldsLoad ==
    (codec.kind = "json" /\ codec.done /\ codec.obj \notin BrokenInputs) =>
        LET obj == codec.obj
            known == [f \in DOMAIN obj \cap SessionFields |-> obj[f]]
        IN /\ IsSome(codec.out)
           /\ obj["status"] \notin KnownNames => Unwrap(codec.out).status = NeedsAttention
           /\ obj["status"] \in KnownNames =>
                 StatusStr(Unwrap(codec.out).status) = obj["status"]
           /\ \A f \in {"pid", "last_tool", "last_tool_detail", "notification_message"} :
                 f \notin DOMAIN obj => Unwrap(codec.out)[f] = None
           /\ DOMAIN Unwrap(codec.out) = SessionFields
           /\ codec.out = FromJson(known)
           /\ Unwrap(codec.out).session_id = obj["session_id"]
           /\ Unwrap(codec.out).started_at = obj["started_at"]

\* a record of an earlier release: unknown status name, none of the four
\* newer fields, the context_compacted flag
C22_Witness ==
    /\ codec.kind = "json" /\ codec.done
    /\ codec.obj["status"] = "needs_input"
    /\ DOMAIN codec.obj = RequiredFields \cup {"last_prompt", "context_compacted"}
    /\ IsSome(codec.out)
    /\ Unwrap(codec.out).status = NeedsAttention
    /\ Unwrap(codec.out).pid = None
    /\ Unwrap(codec.out).last_tool = None
    /\ Unwrap(codec.out).last_prompt = Some(Str("old", 3))

(***************************************************************************)
(* C23: serialising a Session and deserialising the text gives back a      *)
(* Session equal to the original in every field, for every status and      *)
(* every combination of present and absent optional fields.                *)
(***************************************************************************)
C23_SerializeDeserializeRoundTrip ==
    (codec.kind = "session" /\ codec.done) =>
        /\ IsSome(codec.out)
        /\ \A f \in SessionFields : Unwrap(codec.out)[f] = codec.session[f]
        /\ DOMAIN Unwrap(codec.out) = DOMAIN codec.session

\* a session waiting for input whose absent fields were written as null
C23_Witness ==
    /\ codec.kind = "session" /\ codec.done
    /\ codec.session.status = WaitingInput
    /\ codec.session.pid = None
    /\ IsSome(codec.session.last_prompt)
    /\ codec.session.terminal = TermDefault
    /\ codec.json.status = "waiting_input"
    /\ codec.json.pid = JNull
    /\ codec.json.terminal.tty = JNull
    /\ codec.out = Some(codec.session)

(***************************************************************************)
(* C24: when two hook invocations for the same identifier interleave, the  *)
(* file that remains after both have finished is the complete record of    *)
(* one of them whose rename succeeded, and a reader of the session file    *)
(* never sees a partly written file while both are running.                *)
(***************************************************************************)
SameIdentifier ==
    /\ \A h \in Slots : Started(h) /\ hk[h].session /= None
    /\ hk[1].inv.input.session_id = hk[2].inv.input.session_id

C24_SameIdentifierLastRenameWins ==
    /\ (SameIdentifier /\ AllFinished) =>
            \E h \in Slots : hk[h].ok /\ ContentAt(files, FinalName(h)) = NewFile(h)
    /\ (SameIdentifier /\ rd.op = "read" /\ rd.name = FinalName(1)
            /\ \A h \in Slots : rd.pcs[h] /= "idle") =>
            (rd.seen /= None => Unwrap(rd.seen).kind = "json")

(***************************************************************************)
(* C25: whenever a pruning pass deletes a session file while hook          *)
(* processes write, the record the file holds at the moment of deletion    *)
(* meets the criterion of the pass: its process does not exist             *)
(* (load_live_sessions), it is older than the threshold                    *)
(* (cleanup_stale_sessions), it belongs to the sweeping session's project  *)
(* and its process does not exist or it has no PID and is more than 24     *)
(* hours old (project sweep), it carries the sweeping process's PID under  *)
(* another identifier (PID sweep).                                         *)
(***************************************************************************)
MeetsCriterion(kind, session, pt, now, max_age) ==
    LET gone == IsSome(session.pid) /\ ~ProcessExists(pt, Unwrap(session.pid))
        other == session.session_id /= SanitizeSessionId(Sweeper.input.session_id)
    IN CASE kind = "live" -> gone
         [] kind = "stale" -> now - session.last_activity > max_age
         [] kind = "project" ->
                /\ session.project_path = Sweeper.input.cwd /\ other
                /\ IF IsSome(session.pid) THEN gone
                   ELSE now - session.last_activity > NO_PID_MAX_AGE
         [] kind = "pid" -> session.pid = Some(Sweeper.ppid) /\ other
         [] OTHER -> FALSE

C25_PassDeletesOnlyProvenGarbage ==
    (rd.op = "pass" /\ IsSome(rd.deleted)) =>
        LET d == Unwrap(rd.deleted)
        IN /\ d.held.kind = "json"
           /\ IsSome(FromJson(d.held.obj))
           /\ MeetsCriterion(rd.kind, Unwrap(FromJson(d.held.obj)), d.procs, d.now,
                             rd.max_age)

(***************************************************************************)
(* C26: when SessionStart invocations of one process with different        *)
(* identifiers (sanitising to different, non-empty names) run at the same  *)
(* time, at most one record in the store carries the PID of that process   *)
(* once all of them have finished.                                         *)
(***************************************************************************)
RacingStarts ==
    /\ AllFinished
    /\ \A h \in Slots : hk[h].event = "SessionStart" /\ hk[h].safe_id /= <<>>
    /\ hk[1].safe_id /= hk[2].safe_id
    /\ hk[1].inv.ppid = hk[2].inv.ppid

C26_RacingStartsLeaveOneRecordPerPid ==
    RacingStarts =>
        Cardinality({n \in Records(files) :
                        Rec(files, n).pid = Some(hk[1].inv.ppid)}) <= 1

(***************************************************************************)
(* C27: at the step at which write_to_file returns, whether or not another *)
(* writer of the same identifier is running: if it returns Ok the final    *)
(* file holds exactly the caller's record, and if it returns an error the  *)
(* caller has not changed the final file.                                  *)
(***************************************************************************)
Returns(h) == hk[h].pc = "rename" /\ hk'[h].pc = "done"

C27_WriteLandsOrFails ==
    [][\A h \in Slots :
        Returns(h) =>
            IF hk'[h].ok
            THEN ContentAt(files', FinalName(h)) = NewFile(h)
            ELSE /\ FinalName(h) \notin hk'[h].touched
                 /\ ContentAt(files', FinalName(h)) = ContentAt(files, FinalName(h))]_vars

(***************************************************************************)
(* C28: load_all, load_live_sessions and cleanup_stale_sessions never      *)
(* return an error because a session file disappeared after it was listed: *)
(* the entry is skipped, the pass goes on with the files that remain and   *)
(* returns Ok after it has loaded every listed file that was still there.  *)
(***************************************************************************)
C28_PassesTolerateVanishedFiles ==
    (rd.op = "pass" /\ rd.kind \in {"all", "live", "stale"}) =>
        /\ ~PassReturnedErr
        /\ PassReturnedOk => rd.listed \subseteq rd.loaded \cup rd.missed

(***************************************************************************)
(* C29: a SessionStart that is handled leaves a persisted record with      *)
(* status Idle, no last_tool, last_tool_detail or notification_message,    *)
(* and the parent PID of the invoking process as pid.  For a fresh         *)
(* identifier project_name is the last component of the payload's cwd, or  *)
(* "unknown" when the cwd is the root or ends in "..".  For an existing    *)
(* record last_prompt, started_at and project_path are kept and any stored *)
(* pid is overwritten.                                                     *)
(***************************************************************************)
LastComponent(path) == path[Len(path)]

SessionStartCore ==
    LET new == Unwrap(OwnAfter)
    IN /\ IsSome(OwnAfter)
       /\ new.status = Idle
       /\ new.last_tool = None
       /\ new.last_tool_detail = None
       /\ new.notification_message = None
       /\ new.pid = Some(last.inv.ppid)
       /\ IsSome(OwnBefore) =>
             /\ new.last_prompt = Unwrap(OwnBefore).last_prompt
             /\ new.started_at = Unwrap(OwnBefore).started_at
             /\ new.project_path = Unwrap(OwnBefore).project_path

C29_WitnessFresh ==
    /\ HookDone("SessionStart") /\ last.ok
    /\ OwnBefore = None
    /\ Unwrap(OwnAfter).project_name = "p"
    /\ Unwrap(OwnAfter).pid = Some(last.inv.ppid)

(***************************************************************************)
(* C30: a UserPromptSubmit that is handled, from whatever status, leaves   *)
(* the persisted record Working with last_tool, last_tool_detail and       *)
(* notification_message empty; last_prompt is the payload's prompt when    *)
(* the payload has one and is what it was before (nothing for a fresh      *)
(* record) when it has none.                                               *)
(***************************************************************************)
PromptBefore == IF IsSome(OwnBefore) THEN Unwrap(OwnBefore).last_prompt ELSE None

C30_UserPromptSubmitPersistsWorking ==
    (HookDone("UserPromptSubmit") /\ last.ok) =>
        LET new == Unwrap(OwnAfter)
            prompt == last.inv.input.prompt
        IN /\ IsSome(OwnAfter)
           /\ new.status = Working
           /\ new.last_tool = None
           /\ new.last_tool_detail = None
           /\ new.notification_message = None
           /\ new.last_prompt = IF IsSome(prompt) THEN prompt ELSE PromptBefore

\* a prompt submitted to a record that needed attention with a tool, a
\* message and an older prompt stored
C30_Witness ==
    /\ HookDone("UserPromptSubmit") /\ last.ok
    /\ IsSome(OwnBefore)
    /\ Unwrap(OwnBefore).status = NeedsAttention
    /\ IsSome(Unwrap(OwnBefore).last_tool)
    /\ IsSome(Unwrap(OwnBefore).notification_message)
    /\ IsSome(Unwrap(OwnBefore).last_prompt)
    /\ IsSome(last.inv.input.prompt)
    /\ Unwrap(OwnAfter).last_prompt = last.inv.input.prompt
    /\ Unwrap(OwnAfter).last_prompt /= Unwrap(OwnBefore).last_prompt
    /\ Unwrap(OwnAfter).status = Working

\* a UserPromptSubmit without a prompt that kept the stored one
C30_WitnessNoPrompt ==
    /\ HookDone("UserPromptSubmit") /\ last.ok
    /\ IsSome(OwnBefore)
    /\ last.inv.input.prompt = None
    /\ IsSome(Unwrap(OwnAfter).last_prompt)
    /\ Unwrap(OwnAfter).last_prompt = Unwrap(OwnBefore).last_prompt
    /\ Unwrap(OwnAfter).status = Working

(***************************************************************************)
(* C31: a Notification of any sub-kind that is handled leaves last_tool    *)
(* and last_tool_detail empty; notification_message is the payload's       *)
(* message when it has one and what it was before otherwise; the status    *)
(* is WaitingInput for idle_prompt, WaitingPermission for                  *)
(* permission_prompt, and for any other or a missing type what it was      *)
(* before (Idle for a record created by this event).                       *)
(***************************************************************************)
StatusBefore == IF IsSome(OwnBefore) THEN Unwrap(OwnBefore).status ELSE Idle
MessageBefore == IF IsSome(OwnBefore) THEN Unwrap(OwnBefore).notification_message ELSE None

C31_NotificationEffects ==
    (last.op = "hook" /\ last.inv.hook_name = "Notification" /\ last.ok) =>
        LET new == Unwrap(OwnAfter)
            input == last.inv.input
            type == input.notification_type
        IN /\ IsSome(OwnAfter)
           /\ new.last_tool = None
           /\ new.last_tool_detail = None
           /\ new.notification_message =
                 IF IsSome(input.message) THEN input.message ELSE MessageBefore
           /\ new.status =
                 CASE type = Some("idle_prompt") -> WaitingInput
                   [] type = Some("permission_prompt") -> WaitingPermission
                   [] OTHER -> StatusBefore

\* a Notification without a type and without a message for a record that
\* was waiting for permission with a message stored
C31_Witness ==
    /\ last.op = "hook" /\ last.inv.hook_name = "Notification" /\ last.ok
    /\ last.inv.input.notification_type = None
    /\ last.inv.input.message = None
    /\ IsSome(OwnBefore)
    /\ Unwrap(OwnBefore).status = WaitingPermission
    /\ IsSome(Unwrap(OwnBefore).notification_message)
    /\ Unwrap(OwnAfter).status = WaitingPermission
    /\ Unwrap(OwnAfter).notification_message = Unwrap(OwnBefore).notification_message

\* a Notification of a type this release does not know
C31_WitnessOtherType ==
    /\ last.op = "hook" /\ last.inv.hook_name = "Notification" /\ last.ok
    /\ last.inv.input.notification_type = Some("auth_success")
    /\ IsSome(last.inv.input.message)
    /\ IsSome(OwnBefore)
    /\ IsSome(Unwrap(OwnBefore).last_tool)
    /\ Unwrap(OwnBefore).status = Working
    /\ Unwrap(OwnAfter).status = Working
    /\ Unwrap(OwnAfter).notification_message = last.inv.input.message

(***************************************************************************)
(* C32: a PermissionRequest that is handled leaves the persisted record    *)
(* WaitingPermission with last_tool and last_tool_detail empty, and its    *)
(* notification_message is the payload's title when it has one, otherwise  *)
(* "<tool>: <detail>" when the payload names a tool whose input yields a   *)
(* detail, otherwise the tool name alone, and nothing when the payload     *)
(* has neither a title nor a tool name.                                    *)
(***************************************************************************)
PayloadDetail(input) ==
    IF IsSome(input.tool_name) /\ IsSome(input.tool_input)
    THEN ExtractToolDetail(Unwrap(input.tool_name), Unwrap(input.tool_input))
    ELSE None

C32_PermissionRequestMessage ==
    (HookDone("PermissionRequest") /\ last.ok) =>
        LET new == Unwrap(OwnAfter)
            input == last.inv.input
        IN /\ IsSome(OwnAfter)
           /\ new.status = WaitingPermission
           /\ new.last_tool = None
           /\ new.last_tool_detail = None
           /\ IsSome(input.title) => new.notification_message = input.title
           /\ (input.title = None /\ IsSome(PayloadDetail(input))) =>
                 new.notification_message =
                    Some(Unwrap(input.tool_name) \o Str(": ", 2)
                            \o Unwrap(PayloadDetail(input)))
           /\ (input.title = None /\ IsSome(input.tool_name)
                    /\ PayloadDetail(input) = None) =>
                 new.notification_message = input.tool_name
           /\ (input.title = None /\ input.tool_name = None) =>
                 new.notification_message = None

\* a titled request that names a tool with a detail, for a record that was
\* working on a tool
C32_Witness ==
    /\ HookDone("PermissionRequest") /\ last.ok
    /\ IsSome(last.inv.input.title)
    /\ IsSome(PayloadDetail(last.inv.input))
    /\ IsSome(OwnBefore)
    /\ IsSome(Unwrap(OwnBefore).last_tool)
    /\ Unwrap(OwnAfter).notification_message = last.inv.input.title
    /\ Unwrap(OwnAfter).last_tool = None
    /\ Unwrap(OwnAfter).status = WaitingPermission

\* requests without a title: tool with detail, tool without detail, nothing
C32_WitnessDetail ==
    /\ HookDone("PermissionRequest") /\ last.ok
    /\ last.inv.input.title = None
    /\ Unwrap(OwnAfter).notification_message =
          Some(Str("Grep", 4) \o Str(": ", 2) \o ShortText)

C32_WitnessBareTool ==
    /\ HookDone("PermissionRequest") /\ last.ok
    /\ IsSome(last.inv.input.tool_input)
    /\ Unwrap(OwnAfter).notification_message = Some(Str("Agent", 5))

C32_WitnessNothing ==
    /\ HookDone("PermissionRequest") /\ last.ok
    /\ IsSome(OwnBefore)
    /\ IsSome(Unwrap(OwnBefore).notification_message)
    /\ Unwrap(OwnAfter).notification_message = None

(***************************************************************************)
(* C33: a PreToolUse that is handled leaves the persisted record Working.  *)
(* When the payload names a tool, last_tool is that name and               *)
(* last_tool_detail is the tool's mapped input field (Bash: command;       *)
(* Edit, Write, Read: file_path; Grep, Glob: pattern; WebFetch: url;       *)
(* WebSearch: query; Task: description), cut to 120 characters ending in   *)
(* "..." when it is longer than that, and nothing for an unknown tool or a  *)
(* missing, non-string or empty field.  When the payload names no tool     *)
(* both fields are what they were before.                                  *)
(***************************************************************************)
\* chars().count()
RECURSIVE TextChars(_)
TextChars(t) == IF Len(t) = 0 THEN 0 ELSE t[1].n + TextChars(Tail(t))

ClaimedField(tool_name) ==
    CASE tool_name = Str("Bash", 4) -> Some("command")
      [] tool_name \in {Str("Edit", 4), Str("Write", 5), Str("Read", 4)} -> Some("file_path")
      [] tool_name \in {Str("Grep", 4), Str("Glob", 4)} -> Some("pattern")
      [] tool_name = Str("WebFetch", 8) -> Some("url")
      [] tool_name = Str("WebSearch", 9) -> Some("query")
      [] tool_name = Str("Task", 4) -> Some("description")
      [] OTHER -> None

ClaimedDetail(input) ==
    LET field == ClaimedField(Unwrap(input.tool_name))
        ti == Unwrap(input.tool_input)
        present == /\ IsSome(field) /\ IsSome(input.tool_input)
                   /\ ti.t = "obj" /\ Unwrap(field) \in DOMAIN ti.m
                   /\ ti.m[Unwrap(field)].t = "str"
        value == ti.m[Unwrap(field)].v
    IN IF ~present THEN None
       ELSE IF TextChars(value) = 0 THEN None
       ELSE IF TextChars(value) <= MAX_TOOL_DETAIL_LEN THEN Some(value)
       ELSE Some(TextTake(value, MAX_TOOL_DETAIL_LEN - 3) \o Str("...", 3))

ToolBefore == IF IsSome(OwnBefore) THEN Unwrap(OwnBefore).last_tool ELSE None
DetailBefore == IF IsSome(OwnBefore) THEN Unwrap(OwnBefore).last_tool_detail ELSE None

C33_PreToolUseRecordsTool ==
    (HookDone("PreToolUse") /\ last.ok) =>
        LET new == Unwrap(OwnAfter)
            input == last.inv.input
        IN /\ IsSome(OwnAfter)
           /\ new.status = Working
           /\ IsSome(input.tool_name) =>
                 /\ new.last_tool = input.tool_name
                 /\ new.last_tool_detail = ClaimedDetail(input)
           /\ input.tool_name = None =>
                 /\ new.last_tool = ToolBefore
                 /\ new.last_tool_detail = DetailBefore

(***************************************************************************)
(* C34: the hook process always terminates.  A process whose stdin never   *)
(* closes stops waiting when the timeout expires, and that step changes no *)
(* session file and ends the process with status 0.                        *)
(***************************************************************************)
Waiting == hk[1].pc = "waiting"
NeverCloses == Waiting /\ hk[1].run.stdin = "timeout"
TimedOut == hk[1].pc = "idle" /\ last.op = "main" /\ last.run.stdin = "timeout"

C34_HookTerminates ==
    /\ Waiting ~> ~Waiting
    /\ NeverCloses ~> (TimedOut /\ last.exit = 0)
    /\ [][(NeverCloses /\ ~Waiting') =>
            (files' = files /\ dirExists' = dirExists /\ TimedOut' /\ last'.exit = 0)]_vars

\* a process that timed out next to session files another session wrote
\* while it was waiting
C34_Witness ==
    /\ TimedOut /\ last.exit = 0
    /\ files = last.before
    /\ Records(files) /= {}
    /\ nops = MaxOps

(***************************************************************************)
(* The life of one record: the directory starts empty, every hook event of *)
(* session "a" is handled one at a time without a failing write, and the   *)
(* operator may reset the session between events.  The number of events is *)
(* not bounded; `last` remembers the latest event and the latest event     *)
(* whose table entry names a status ("none" before the first, "reset"      *)
(* after a reset).                                                         *)
(***************************************************************************)
LifeInvocations ==
    {Invocation(k, <<"a">>, ProjP, 1, p, "none") : k \in Kinds, p \in {Bare, Full, ToolOnly}}

InitLife ==
    /\ tr = TrIdle
    /\ san = SanIdle
    /\ codec = CodecIdle
    /\ files = EmptyDir
    /\ dirExists = FALSE
    /\ clock = StartTime
    /\ procs = InitProcs
    /\ env = [branch |-> "main", terminal |-> TermA]
    /\ last = [op |-> "init", event |-> "none", decisive |-> "none"]
    /\ nops = 0
    /\ RaceIdle

LifeEvent(inv) ==
    /\ \E r \in {HandleHook(files, dirExists, procs, env, clock, inv)} :
          /\ r.ok
          /\ files' = r.fs
          /\ dirExists' = r.dir
          /\ last' = [op |-> "event", event |-> r.event,
                      decisive |-> IF IsSome(TableTarget(r.event))
                                   THEN r.event ELSE last.decisive]
    /\ UNCHANGED <<tr, san, codec, clock, procs, env, nops>>
    /\ UNCHANGED raceVars

LifeReset ==
    /\ \E r \in {ResetSessionCmd(files, clock, <<"a">>)} :
          /\ r.exit = 0
          /\ files' = r.fs
          /\ last' = [op |-> "reset", event |-> "none", decisive |-> "reset"]
    /\ UNCHANGED <<tr, san, codec, dirExists, clock, procs, env, nops>>
    /\ UNCHANGED raceVars

NextLife ==
    \/ \E inv \in LifeInvocations : LifeEvent(inv)
    \/ LifeReset

SpecLife == InitLife /\ [][NextLife]_vars

(***************************************************************************)
(* C35: in every record reached from a freshly created record by hook      *)
(* events and resets, last_tool is set only while the status is Working or *)
(* Compacting, and last_tool_detail is set only when last_tool is set.     *)
(***************************************************************************)
C35_ToolOnlyWhileBusy ==
    \A n \in Records(files) :
        /\ IsSome(Rec(files, n).last_tool) => Rec(files, n).status \in {Working, Compacting}
        /\ IsSome(Rec(files, n).last_tool_detail) => IsSome(Rec(files, n).last_tool)

\* A record that went Working with a tool and a detail, was compacted and then
\* saw an event the table does not know.
C35_Witness ==
    /\ last.op = "event" /\ last.event = "Unknown" /\ last.decisive = "PreCompact"
    /\ \E n \in Records(files) :
          /\ Rec(files, n).status = Compacting
          /\ IsSome(Rec(files, n).last_tool)
          /\ IsSome(Rec(files, n).last_tool_detail)

\* A record reset while it held a tool.
C35_WitnessReset ==
    /\ last.op = "reset"
    /\ \E n \in Records(files) :
          Rec(files, n).status = Idle /\ Rec(files, n).last_tool = None

(***************************************************************************)
(* C36: when handle_hook returns an error the sessions directory is as it  *)
(* was before the event: the same files with the same contents, so no      *)
(* record of another session is gone and no temporary file was added.      *)
(***************************************************************************)
HookFailed == last.op = "hook" /\ ~last.ok /\ IsSome(last.session)

\* no record of another session was deleted by the failed event
C36_NoRecordDeleted ==
    HookFailed => \A n \in Records(last.before) : n /= OwnName => n \in Records(files)

\* the failed event left no file behind that was not there before
C36_NoTempLeft ==
    HookFailed => DOMAIN files \subseteq DOMAIN last.before

C36_FailedEventLeavesDirectory ==
    HookFailed => (files = last.before /\ dirExists = last.dirBefore)

(***************************************************************************)
(* C37: once a hook event other than SessionEnd has been handled           *)
(* successfully for an identifier, Session::load_all returns a record      *)
(* whose session_id is the sanitized identifier.  The state right after    *)
(* the event is the first state of the claim's interval: no cleanup pass   *)
(* has run since the write.                                                *)
(***************************************************************************)
Handled == last.op = "hook" /\ last.ok /\ last.event /= "SessionEnd"

Listed(id) == \E s \in LoadAll(files) : s.session_id = SanitizeSessionId(id)

C37_HandledSessionIsListed == Handled => Listed(last.inv.input.session_id)

\* The same for the identifiers whose sanitized form is not empty.
C37_NamedSessionIsListed ==
    (Handled /\ SanitizeSessionId(last.inv.input.session_id) /= <<>>)
        => Listed(last.inv.input.session_id)

(***************************************************************************)
(* C38: no hook event and no reset sets a status to NeedsAttention.  A     *)
(* record that has the status after a step had it before the step, and the *)
(* step was not a successful event of that session whose table entry names *)
(* a status: such an event takes the record out of NeedsAttention, and     *)
(* nothing brings it back.                                                 *)
(***************************************************************************)
Legacy(fs) == {n \in Records(fs) : Rec(fs, n).status = NeedsAttention}

C38_NeedsAttentionNeverSet ==
    [][/\ Legacy(files') \subseteq Legacy(files)
       /\ (last'.op = "hook" /\ last'.ok /\ IsSome(TableTarget(last'.event)))
            => JsonName(SanitizeSessionId(last'.inv.input.session_id)) \notin Legacy(files')
       /\ (last'.op = "reset" /\ last'.exit = 0)
            => JsonName(SanitizeSessionId(Unwrap(last'.new).session_id)) \notin Legacy(files')
      ]_vars

\* A record loaded with NeedsAttention has just left it at an event whose
\* table entry names a status.
C38_Witness ==
    /\ last.op = "hook" /\ last.ok /\ IsSome(TableTarget(last.event))
    /\ OwnName \in Legacy(last.before)
    /\ OwnName \in Records(files) \ Legacy(files)

\* A record that kept NeedsAttention through an event the table preserves.
C38_WitnessPreserved ==
    /\ last.op = "hook" /\ last.ok /\ last.event \in {"NotificationOther", "Unknown"}
    /\ OwnName \in Legacy(last.before) \cap Legacy(files)

\* A record reset out of NeedsAttention.
C38_WitnessReset ==
    /\ last.op = "reset" /\ last.exit = 0
    /\ Unwrap(last.old).status = NeedsAttention
    /\ Legacy(files) = {}

(***************************************************************************)
(* The watcher left alone with the sessions directory: nothing but its own *)
(* reloads changes the directory.  The notify backend reports every file a *)
(* reload removes as a Remove event, and may report the reload's reads as  *)
(* Access events; reports travel in order (rd.inflight) and reach the      *)
(* channel later.  Agent processes may still exit.  nops counts reloads,   *)
(* base remembers the directory the watcher started on and how many        *)
(* relevant events were waiting in the channel.                            *)
(***************************************************************************)
RemoveEvent == [ok |-> TRUE, kind |-> "Remove"]
AccessEvent == [ok |-> TRUE, kind |-> "Access"]

Relevant(queue) == {i \in DOMAIN queue : queue[i].ok /\ IsRelevantEvent(queue[i])}

RECURSIVE Repeat(_, _)
Repeat(item, n) == IF n = 0 THEN <<>> ELSE <<item>> \o Repeat(item, n - 1)

InitSettle ==
    /\ tr = TrIdle
    /\ san = SanIdle
    /\ codec = CodecIdle
    /\ files \in {SeedLive, SeedLegacy @@ SeedLive}
    /\ dirExists = TRUE
    /\ clock = StartTime
    /\ procs = InitProcs
    /\ env = [branch |-> "main", terminal |-> TermA]
    /\ last = [op |-> "init"]
    /\ nops = 0
    /\ hk = [h \in {1, 2} |-> HkIdle]
    /\ receiver \in {<<>>, <<[ok |-> TRUE, kind |-> "Modify"]>>,
                      <<[ok |-> FALSE, kind |-> "Error"]>>}
    /\ rd = [op |-> "watch", inflight |-> <<>>]
    /\ base = [dir |-> TRUE, fs |-> files, external |-> Cardinality(Relevant(receiver))]

\* The most reloads the counter records.
ReloadCap == Cardinality(DOMAIN base.fs) + 2

\* One call of poll_changes by the redraw loop, with the reports its reload
\* gives rise to.
WatchPoll ==
    \E r \in {PollChanges(receiver, files, procs)} :
      \E noise \in {<<>>, <<AccessEvent>>} :
        /\ noise /= <<>> => /\ r.reloads = 1
                             /\ Len(receiver) + Len(rd.inflight) < MaxQueue
        /\ files' = r.fs
        /\ receiver' = r.queue
        /\ rd' = [rd EXCEPT !.inflight =
                        @ \o Repeat(RemoveEvent, Cardinality(DOMAIN files \ DOMAIN r.fs))
                          \o noise]
        /\ last' = [op |-> "poll", result |-> r.result, reloads |-> r.reloads]
        /\ nops' = IF nops + r.reloads > ReloadCap THEN ReloadCap ELSE nops + r.reloads
        /\ UNCHANGED <<tr, san, codec, dirExists, clock, procs, env, hk, base>>

\* The backend's callback sends the oldest report to the channel.
Deliver ==
    /\ rd.inflight /= <<>>
    /\ receiver' = Append(receiver, Head(rd.inflight))
    /\ rd' = [rd EXCEPT !.inflight = Tail(@)]
    /\ UNCHANGED <<tr, san, codec, files, dirExists, clock, procs, env, last, nops, hk, base>>

\* An agent process exits; its record stays until a reload finds it.
AgentExit(pid) ==
    /\ procs[pid] = "alive"
    /\ procs' = [procs EXCEPT ![pid] = "dead"]
    /\ UNCHANGED <<tr, san, codec, files, dirExists, clock, env, last, nops, hk, rd, base,
                   receiver>>

NextSettle ==
    \/ WatchPoll
    \/ Deliver
    \/ \E pid \in DOMAIN procs : AgentExit(pid)

\* The redraw loop keeps polling and the backend keeps delivering.
SpecSettle ==
    InitSettle /\ [][NextSettle]_vars /\ WF_vars(WatchPoll) /\ WF_vars(Deliver)

(***************************************************************************)
(* C39: with the directory changed by nothing but the watcher's reloads,   *)
(* from some point on every poll_changes returns None and no report is     *)
(* under way; every reload is accounted for by a relevant event that was   *)
(* waiting at the start or by one file a reload removed, so removals cause *)
(* at most as many further reloads as there were files.                    *)
(***************************************************************************)
Calm ==
    /\ last.op = "poll" => last.result = None
    /\ Relevant(receiver) = {}
    /\ Relevant(rd.inflight) = {}

C39_WatcherSettles ==
    /\ <>[]Calm
    /\ [](nops <= base.external + Cardinality(DOMAIN base.fs \ DOMAIN files))

\* The watcher at rest after a removal of its own caused a further reload.
C39_Witness ==
    /\ last.op = "poll" /\ last.result = None
    /\ receiver = <<>> /\ rd.inflight = <<>>
    /\ nops >= 2
    /\ DOMAIN files /= DOMAIN base.fs

(***************************************************************************)
(* C40: after any sequence of hook events handled one at a time for one    *)
(* identifier, starting without a record, the persisted status is the      *)
(* table target of the latest event whose table entry names a status, and  *)
(* Idle when there was none; a reset counts as such an event with target   *)
(* Idle.  Earlier events do not matter.                                    *)
(***************************************************************************)
DecisiveTarget ==
    IF last.decisive \in {"none", "reset"} THEN Idle ELSE Unwrap(TableTarget(last.decisive))

C40_StatusIsLatestTarget ==
    \A n \in Records(files) : Rec(files, n).status = DecisiveTarget

\* The latest event was one the table preserves, after a PermissionRequest
\* that followed other events.
C40_Witness ==
    /\ last.op = "event" /\ last.event \in {"NotificationOther", "Unknown"}
    /\ last.decisive = "PermissionRequest"
    /\ \E n \in Records(files) :
          /\ Rec(files, n).status = WaitingPermission
          /\ IsSome(Rec(files, n).last_prompt)

\* A record that has only seen events the table preserves.
C40_WitnessNoDecisive ==
    /\ last.op = "event" /\ last.decisive = "none"
    /\ \E n \in Records(files) : Rec(files, n).status = Idle

====
